---- MODULE Spec2Model ----
(***************************************************************************)
(* Footballers overall database: the staged rating pipeline                *)
(*   3_process_match_events.py   -> data/processed_players.csv             *)
(*   4_aggregate_player_stats.py -> tables players, player_stats           *)
(*   5_calculate_player_attributes.py -> table player_attributes           *)
(* and the monolithic variant map_stats_bomb_db_fixed.py.                  *)
(*                                                                         *)
(* Numbers.  The scripts compute with IEEE doubles.  The model computes    *)
(* with exact rationals <<n, d>> (d > 0, lowest terms); <<0, 0>> is NaN    *)
(* and <<1, 0>>, <<-1, 0>> are +inf, -inf, the values pandas produces for  *)
(* 0/0 and x/0.  round(x, 2) is round-half-to-even on the exact value.     *)
(***************************************************************************)
EXTENDS Integers, Sequences, FiniteSets, TLC

\* ------------------------------------------------------------------------
\* Bounds of the model
\* ------------------------------------------------------------------------
MaxPop == 3

\* ------------------------------------------------------------------------
\* Program constants
\* ------------------------------------------------------------------------
\* min_minutes=500, the default of percentile_to_1_20
MinMinutes == 500
\* 1 / 1e-8: the fallback branch adds 1e-8 to (max - min)
InvEps == 100000000

\* ------------------------------------------------------------------------
\* Exact arithmetic
\* ------------------------------------------------------------------------
Abs(x) == IF x < 0 THEN 0 - x ELSE x

Sgn(x) == IF x < 0 THEN 0 - 1 ELSE IF x = 0 THEN 0 ELSE 1

RECURSIVE GCD(_, _)
GCD(a, b) == IF b = 0 THEN a ELSE GCD(b, a % b)

RECURSIVE GCDSet(_)
GCDSet(S) ==
    IF S = {} THEN 0
    ELSE LET x == CHOOSE y \in S : TRUE
         IN  GCD(Abs(x), GCDSet(S \ {x}))

LCM(a, b) == (a \div GCD(a, b)) * b

RECURSIVE LCMSet(_)
LCMSet(S) ==
    IF S = {} THEN 1
    ELSE LET x == CHOOSE y \in S : TRUE
         IN  LCM(x, LCMSet(S \ {x}))

NaN == <<0, 0>>

IsNaN(x) == x = NaN

IsFinite(x) == x[2] # 0

Norm(x) ==
    IF x[2] = 0 THEN <<Sgn(x[1]), 0>>
    ELSE LET g == GCD(Abs(x[1]), Abs(x[2]))
             s == Sgn(x[2])
         IN  <<s * (x[1] \div g), s * (x[2] \div g)>>

R(n) == <<n, 1>>

Frac(n, d) == Norm(<<n, d>>)

RAdd(x, y) ==
    IF IsNaN(x) \/ IsNaN(y) THEN NaN
    ELSE IF x[2] = 0 /\ y[2] = 0 THEN (IF x[1] = y[1] THEN x ELSE NaN)
    ELSE IF x[2] = 0 THEN x
    ELSE IF y[2] = 0 THEN y
    ELSE LET l == LCM(x[2], y[2])
         IN  Norm(<<x[1] * (l \div x[2]) + y[1] * (l \div y[2]), l>>)

RNeg(x) == <<0 - x[1], x[2]>>

RSub(x, y) == RAdd(x, RNeg(y))

RMul(x, y) ==
    IF x[2] = 0 \/ y[2] = 0 THEN Norm(<<x[1] * y[1], 0>>)
    ELSE LET g1 == GCD(Abs(x[1]), y[2])
             g2 == GCD(Abs(y[1]), x[2])
             h1 == IF g1 = 0 THEN 1 ELSE g1
             h2 == IF g2 = 0 THEN 1 ELSE g2
         IN  Norm(<<(x[1] \div h1) * (y[1] \div h2),
                    (x[2] \div h2) * (y[2] \div h1)>>)

RInv(x) == Norm(<<x[2], x[1]>>)

RDiv(x, y) == RMul(x, RInv(y))

\* a / b < c / d for b, d > 0, by comparing integer parts and then the
\* reciprocals of the remainders: no product is formed
RECURSIVE LessFrac(_, _, _, _)
LessFrac(a, b, c, d) ==
    IF a \div b # c \div d THEN a \div b < c \div d
    ELSE IF a % b = 0 \/ c % d = 0 THEN a % b = 0 /\ c % d # 0
    ELSE LessFrac(d, c % d, b, a % b)

\* x < y as floats compare: every comparison with NaN is false
RLess(x, y) ==
    IF IsNaN(x) \/ IsNaN(y) THEN FALSE
    ELSE IF x[2] = 0 /\ y[2] = 0 THEN x[1] < y[1]
    ELSE IF x[2] = 0 THEN x[1] < 0
    ELSE IF y[2] = 0 THEN y[1] > 0
    ELSE LessFrac(x[1], x[2], y[1], y[2])

RLeq(x, y) == ~IsNaN(x) /\ ~IsNaN(y) /\ ~RLess(y, x)

\* round(x, 2) / Series.round(2): the hundredths by long division, what is
\* left rounded to the nearest, ties to the even hundredth
Round2(x) ==
    IF x[2] = 0 THEN x
    ELSE LET d  == x[2]
             q0 == x[1] \div d
             r0 == x[1] % d
             d1 == (10 * r0) \div d
             r1 == (10 * r0) % d
             d2 == (10 * r1) \div d
             r2 == (10 * r1) % d
             h  == 100 * q0 + 10 * d1 + d2
         IN  Frac(IF 2 * r2 < d THEN h
                  ELSE IF 2 * r2 > d THEN h + 1
                  ELSE IF h % 2 = 0 THEN h ELSE h + 1, 100)

\* a number with two decimals, in hundredths
Hundredths(x) == (100 * x[1]) \div x[2]

Max2(x, y) == IF RLess(x, y) THEN y ELSE x

Min2(x, y) == IF RLess(y, x) THEN y ELSE x

\* ------------------------------------------------------------------------
\* 4_aggregate_player_stats.py: per-90 statistics of one aggregated player
\* ------------------------------------------------------------------------
\* the summed columns every rate is computed from
CountCols == {"passes", "completed_passes", "key_passes", "assists",
              "shots", "shots_on_target", "goals", "xG", "xA",
              "dribbles", "dribbles_successful",
              "tackles", "tackles_won", "interceptions", "clearances", "blocks",
              "aerial_duels", "aerial_duels_won",
              "pressures", "fouls_committed", "fouls_won"}

\* the player_stats columns the INSERT of the aggregation stage fills
RateCols == {"passes_per90", "completed_passes_per90", "pass_accuracy",
             "key_passes_per90", "assists_per90",
             "shots_per90", "shots_on_target_per90", "goals_per90",
             "xG_per90", "xA_per90",
             "dribbles_per90", "dribbles_successful_per90",
             "tackles_per90", "tackles_won_per90", "interceptions_per90",
             "clearances_per90", "blocks_per90",
             "aerial_duels_per90", "aerial_duels_won_per90",
             "pressures_per90", "fouls_committed_per90", "fouls_won_per90"}

\* player_stats columns of the schema the INSERT leaves NULL and the rating
\* stage reads
NullCols == {"touches_per90", "saves_per90", "clean_sheets", "goals_conceded_per90"}

StatCols == RateCols \cup NullCols

\* "x_per90" is computed from the summed column "x"
CountOf(col) ==
    CASE col = "passes_per90" -> "passes"
      [] col = "completed_passes_per90" -> "completed_passes"
      [] col = "key_passes_per90" -> "key_passes"
      [] col = "assists_per90" -> "assists"
      [] col = "shots_per90" -> "shots"
      [] col = "shots_on_target_per90" -> "shots_on_target"
      [] col = "goals_per90" -> "goals"
      [] col = "xG_per90" -> "xG"
      [] col = "xA_per90" -> "xA"
      [] col = "dribbles_per90" -> "dribbles"
      [] col = "dribbles_successful_per90" -> "dribbles_successful"
      [] col = "tackles_per90" -> "tackles"
      [] col = "tackles_won_per90" -> "tackles_won"
      [] col = "interceptions_per90" -> "interceptions"
      [] col = "clearances_per90" -> "clearances"
      [] col = "blocks_per90" -> "blocks"
      [] col = "aerial_duels_per90" -> "aerial_duels"
      [] col = "aerial_duels_won_per90" -> "aerial_duels_won"
      [] col = "pressures_per90" -> "pressures"
      [] col = "fouls_committed_per90" -> "fouls_committed"
      [] col = "fouls_won_per90" -> "fouls_won"

\* agg[c] / minutes_played: the division by 90 left out
per90_noscale(count, minutes_played) == RDiv(count, R(minutes_played))

\* minutes_90 = agg["minutes_played"] / 90;  agg[c] / minutes_90
per90(count, minutes_played) == RDiv(count, Frac(minutes_played, 90))

\* (agg["completed_passes"] / agg["passes"] * 100).round(2).fillna(0)
pass_accuracy_rounded(completed_passes, passes) ==
    LET v == Round2(RMul(RDiv(completed_passes, passes), R(100)))
    IN  IF IsNaN(v) THEN R(0) ELSE v

\* (agg["completed_passes"] / agg["passes"] * 100).fillna(0)
pass_accuracy(completed_passes, passes) ==
    LET v == RMul(RDiv(completed_passes, passes), R(100))
    IN  IF IsNaN(v) THEN R(0) ELSE v

\* the columns of the player_stats row inserted for an aggregated player a:
\* a.minutes_played, a.matches_played and a.cnt[c] for c in CountCols
StatsOf(a) ==
    [col \in StatCols |->
        IF col \in NullCols THEN NaN
        ELSE IF col = "pass_accuracy"
             THEN pass_accuracy(a.cnt["completed_passes"], a.cnt["passes"])
        ELSE per90(a.cnt[CountOf(col)], a.minutes_played)]

\* ------------------------------------------------------------------------
\* State
\* ------------------------------------------------------------------------
VARIABLES
    pc,                 \* position of the script being run
    series,             \* argument of percentile_to_1_20: one metric value per row
    minutes,            \* df_stats["minutes_played"], one value per row
    scaled,             \* the Series percentile_to_1_20 returned
    branch,             \* which return statement of percentile_to_1_20 produced it
    rate_in,            \* one aggregated player: summed columns, league, age
    rate_out,           \* the per-90 columns stored for that player
    pre_passing,        \* the passing value handed to percentile_to_1_20
    pre_scale,          \* per sub-attribute: the Series handed over, and s
    league_comp_id,     \* argument comp_id of get_league_coefficient
    league_coefficient, \* the coefficient get_league_coefficient returned
    position_cas,       \* [CA_GK, CA_DEF, CA_MID, CA_FWD] of one row
    versatility,        \* what calculate_versatility_factor returned for it
    players,            \* table players
    player_stats,       \* table player_stats
    player_attributes,  \* table player_attributes
    df_stats,           \* the DataFrame of the rating stage
    attrs,              \* its 25 scaled sub-attribute columns
    ratings,            \* its columns CA_GK, CA_DEF, CA_MID, CA_FWD, CA
    pa,                 \* its column PA
    age_draws,          \* what np.random.randint(18, 35, n) returned
    noise_draws,        \* what np.random.normal returned, one value per row
    runs,               \* completed runs of the rating stage
    first_saved,        \* player_attributes as the first run left it
    matches_table,      \* match ids with a row in table matches
    checkpoint_file,    \* data/checkpoint_matches.txt
    players_csv,        \* data/processed_players.csv
    processed_matches,  \* the set processed_matches of the event stage
    all_players,        \* its list all_players, the frames concatenated
    to_process,         \* its list matches_to_process
    loop_i,             \* the index i of its loop
    event_runs,         \* completed runs of the event stage
    fetched,            \* per match id, the calls sb.events(match_id) so far
    agg,                \* the frame agg of the aggregation stage
    agg_runs,           \* runs of the aggregation so far
    progress_file,      \* data/fetch_progress.json of the football-data fetcher
    completed_matches,  \* its set completed_matches
    stored_details,     \* match ids with scorers and statistics stored
    detail_requests,    \* per match id, the requests for its details so far
    fetch_i,            \* matches of the season's list gone through
    fetch_runs          \* completed runs of the fetcher

scalerVars == <<series, minutes, scaled, branch>>

factorVars == <<league_comp_id, league_coefficient, position_cas, versatility>>

fetchVars == <<progress_file, completed_matches, stored_details, detail_requests,
               fetch_i, fetch_runs>>

rateVars == <<rate_in, rate_out, pre_passing, pre_scale>>

dbVars == <<players, player_stats, player_attributes>>

ratingVars == <<df_stats, attrs, ratings, pa, age_draws, noise_draws, runs, first_saved>>

eventVars == <<matches_table, checkpoint_file, players_csv, processed_matches,
               all_players, to_process, loop_i, event_runs, fetched>>

aggVars == <<agg, agg_runs>>

vars == <<pc, scalerVars, factorVars, fetchVars, rateVars, dbVars, ratingVars, eventVars, aggVars>>

\* ------------------------------------------------------------------------
\* percentile_to_1_20 (5_calculate_player_attributes.py, and the same
\* function of map_stats_bomb_db_fixed.py)
\* ------------------------------------------------------------------------
RECURSIVE SumSet(_)
SumSet(S) ==
    IF S = {} THEN 0
    ELSE LET x == CHOOSE y \in S : TRUE
         IN  x + SumSet(S \ {x})

\* s = pd.Series(series).fillna(0)
fillna(s) == [i \in DOMAIN s |-> IF IsNaN(s[i]) THEN R(0) ELSE s[i]]

\* mask = df_stats["minutes_played"] > min_minutes
MinutesMask_strict(mins, min_minutes) == {i \in DOMAIN mins : mins[i] > min_minutes}

\* mask = df_stats["minutes_played"] >= min_minutes
MinutesMask(mins, min_minutes) == {i \in DOMAIN mins : mins[i] >= min_minutes}

\* baseline = s[mask]
Baseline(s, mask) == {<<i, s[i]>> : i \in mask}

\* the ascending sort Series.rank performs
InsertSorted(x, q) ==
    LET k == Cardinality({j \in 1..Len(q) : ~RLess(x, q[j])})
    IN  SubSeq(q, 1, k) \o <<x>> \o SubSeq(q, k + 1, Len(q))

RECURSIVE SortVals(_)
SortVals(q) == IF q = <<>> THEN <<>> ELSE InsertSorted(Head(q), SortVals(Tail(q)))

\* rank(pct=True) with method='min': tied values all take the lowest position
rank_pct_min(s) ==
    LET n == Len(s)
    IN  [i \in 1..n |->
            Frac(Cardinality({k \in 1..n : RLess(s[k], s[i])}) + 1, n)]

\* rank(pct=True, ascending=False)
rank_pct_desc(s) ==
    LET n == Len(s)
    IN  [i \in 1..n |->
            LET hi == Cardinality({k \in 1..n : RLess(s[i], s[k])})
                c  == Cardinality({k \in 1..n : s[k] = s[i]})
            IN  Frac(2 * hi + c + 1, 2 * n)]

\* s.rank(pct=True): equal values share the mean of the positions they occupy
\* in the sorted order; the rank is divided by the number of rows
rank_pct(s) ==
    LET n      == Len(s)
        sorted == SortVals(s)
    IN  [i \in 1..n |->
            LET pos == {k \in 1..n : sorted[k] = s[i]}
            IN  RDiv(Frac(SumSet(pos), Cardinality(pos)), R(n))]

\* (1 + ranks * 20).round(2)
PercentileBranch_scale20(s, baseline) ==
    LET ranks == rank_pct(s)
    IN  [i \in 1..Len(s) |-> Round2(RAdd(R(1), RMul(ranks[i], R(20))))]

\* ranks = baseline.rank(pct=True): rows outside the baseline get no rank
PercentileBranch_baseline(s, baseline) ==
    LET rows == {e[1] : e \in baseline}
        n    == Cardinality(rows)
    IN  [i \in 1..Len(s) |->
            IF i \notin rows THEN NaN
            ELSE LET lo == Cardinality({k \in rows : RLess(s[k], s[i])})
                     c  == Cardinality({k \in rows : s[k] = s[i]})
                 IN  Round2(RAdd(R(1), RMul(Frac(2 * lo + c + 1, 2 * n), R(19))))]

\* ranks = s.rank(pct=True); return (1 + ranks * 19).round(2)
PercentileBranch(s, baseline) ==
    LET ranks == rank_pct(s)
    IN  [i \in 1..Len(s) |-> Round2(RAdd(R(1), RMul(ranks[i], R(19))))]

\* The fallback on finite values.  With the values on a common denominator d
\* (a = s - min and b = max - min in units of 1/d) the scaled value less one is
\*     v = 19 * a / (b + d * 1e-8)
\* and 100 * v >= t / 2 iff InvEps * (3800 * a - t * b) >= t * d.
\* t * d = q * InvEps + r, computed in pieces that stay within 32 bits
MulDivEps(t, d) ==
    LET dr  == d % InvEps
        x   == t * (dr \div 10000)
        low == (x % 10000) * 10000 + t * (dr % 10000)
    IN  [q |-> t * (d \div InvEps) + (x \div 10000) + (low \div InvEps),
         r |-> low % InvEps]

GeHalf(t, a, b, d) ==
    LET m == MulDivEps(t, d)
    IN  3800 * a - t * b >= m.q + (IF m.r > 0 THEN 1 ELSE 0)

EqHalf(t, a, b, d) ==
    LET m == MulDivEps(t, d)
    IN  m.r = 0 /\ 3800 * a - t * b = m.q

RECURSIVE FloorSearch(_, _, _, _, _)
FloorSearch(lo, hi, a, b, d) ==
    IF hi - lo <= 1 THEN lo
    ELSE LET mid == (lo + hi) \div 2
         IN  IF GeHalf(mid, a, b, d) THEN FloorSearch(mid, hi, a, b, d)
             ELSE FloorSearch(lo, mid, a, b, d)

\* 100 * v rounded half to even
FallbackRound(a, b, d) ==
    LET t == FloorSearch(0, 3801, a, b, d)
        k == t \div 2
    IN  IF t % 2 = 0 THEN k
        ELSE IF EqHalf(t, a, b, d) THEN (IF k % 2 = 0 THEN k ELSE k + 1)
        ELSE k + 1

RMinSeq(s) == CHOOSE x \in {s[i] : i \in 1..Len(s)} :
                  \A j \in 1..Len(s) : ~RLess(s[j], x)

RMaxSeq(s) == CHOOSE x \in {s[i] : i \in 1..Len(s)} :
                  \A j \in 1..Len(s) : ~RLess(x, s[j])

\* return ((s - s.min()) / (s.max() - s.min() + 1e-8) * 19 + 1).round(2)
FallbackBranch(s) ==
    IF \E i \in 1..Len(s) : ~IsFinite(s[i])
    THEN LET mn  == RMinSeq(s)
             den == RAdd(RSub(RMaxSeq(s), mn), Frac(1, InvEps))
         IN  [i \in 1..Len(s) |->
                 Round2(RAdd(RMul(RDiv(RSub(s[i], mn), den), R(19)), R(1)))]
    ELSE LET d0  == LCMSet({s[i][2] : i \in 1..Len(s)})
             num == [i \in 1..Len(s) |-> s[i][1] * (d0 \div s[i][2])]
             lo  == CHOOSE x \in {num[i] : i \in 1..Len(s)} :
                        \A j \in 1..Len(s) : x <= num[j]
             hi  == CHOOSE x \in {num[i] : i \in 1..Len(s)} :
                        \A j \in 1..Len(s) : x >= num[j]
             g   == GCDSet({num[i] - lo : i \in 1..Len(s)} \cup {d0})
         IN  [i \in 1..Len(s) |->
                 Frac(100 + FallbackRound((num[i] - lo) \div g,
                                          (hi - lo) \div g, d0 \div g), 100)]

\* percentile_to_1_20 with the return statement it left through
ScalerRun(ser, mins, min_minutes) ==
    LET s        == fillna(ser)
        mask     == MinutesMask(mins, min_minutes)
        baseline == Baseline(s, mask)
    IN  IF Cardinality(mask) > 0 /\ Cardinality(baseline) > 0
        THEN [branch |-> "percentile", out |-> PercentileBranch(s, baseline)]
        ELSE [branch |-> "fallback", out |-> FallbackBranch(s)]

percentile_to_1_20(ser, mins, min_minutes) == ScalerRun(ser, mins, min_minutes).out

\* ------------------------------------------------------------------------
\* 5_calculate_player_attributes.py: context factors
\* ------------------------------------------------------------------------
\* the lookup with league_coefficients.get(comp_id, 1.0) as its default
get_league_coefficient_default1(comp_id) ==
    CASE comp_id = 2  -> Frac(100, 100)
      [] comp_id = 49 -> Frac(95, 100)
      [] comp_id = 11 -> Frac(90, 100)
      [] comp_id = 12 -> Frac(85, 100)
      [] comp_id = 9  -> Frac(80, 100)
      [] comp_id = 37 -> Frac(110, 100)
      [] comp_id = 38 -> Frac(90, 100)
      [] comp_id = 55 -> Frac(80, 100)
      [] comp_id = 43 -> Frac(105, 100)
      [] comp_id = 50 -> Frac(100, 100)
      [] comp_id = 72 -> Frac(85, 100)
      [] comp_id = 44 -> Frac(80, 100)
      [] comp_id = 45 -> Frac(75, 100)
      [] OTHER -> Frac(100, 100)

get_league_coefficient(comp_id) ==
    CASE comp_id = 2  -> Frac(100, 100)
      [] comp_id = 49 -> Frac(95, 100)
      [] comp_id = 11 -> Frac(90, 100)
      [] comp_id = 12 -> Frac(85, 100)
      [] comp_id = 9  -> Frac(80, 100)
      [] comp_id = 37 -> Frac(110, 100)
      [] comp_id = 38 -> Frac(90, 100)
      [] comp_id = 55 -> Frac(80, 100)
      [] comp_id = 43 -> Frac(105, 100)
      [] comp_id = 50 -> Frac(100, 100)
      [] comp_id = 72 -> Frac(85, 100)
      [] comp_id = 44 -> Frac(80, 100)
      [] comp_id = 45 -> Frac(75, 100)
      [] OTHER -> Frac(80, 100)

calculate_age_factor(age) ==
    IF age <= 21 THEN Frac(110, 100)
    ELSE IF age <= 25 THEN Frac(105, 100)
    ELSE IF age <= 30 THEN Frac(100, 100)
    ELSE Frac(95, 100)

\* df_stats.apply(lambda x: get_league_coefficient(x.get('competition_id', 0)), axis=1)
LeagueOf(x) == get_league_coefficient(x.competition_id)

\* df_stats.apply(lambda x: calculate_age_factor(x.get('age', 25)), axis=1)
AgeFactorOf(x) == calculate_age_factor(x.age)

\* lambda x: hi if lo <= x.get('age', 25) <= up else 1.0, in hundredths
AgeBand(x, lo, up, hi) == IF lo <= x.age /\ x.age <= up THEN Frac(hi, 100) ELSE R(1)

\* ------------------------------------------------------------------------
\* 5_calculate_player_attributes.py: the 25 sub-attributes before scaling.
\* Each is a weighted sum (weights in hundredths) times a context factor.
\* ------------------------------------------------------------------------
\* a / b, the ratio without the offset of the denominator
Ratio_nooffset(a, b) == RDiv(a, b)

\* a / (b + 0.1)
Ratio(a, b) == RDiv(a, RAdd(b, Frac(1, 10)))

RECURSIVE WeightedSum(_)
WeightedSum(terms) ==
    IF Len(terms) = 1 THEN RMul(terms[1][2], Frac(terms[1][1], 100))
    ELSE RAdd(WeightedSum(SubSeq(terms, 1, Len(terms) - 1)),
              RMul(terms[Len(terms)][2], Frac(terms[Len(terms)][1], 100)))

\* passing with assists_per90 weighted 0.25 instead of 0.2
passing_overweight(x) ==
    [terms  |-> << <<30, x.col["passes_per90"]>>, <<25, x.col["pass_accuracy"]>>,
                   <<25, x.col["key_passes_per90"]>>, <<25, x.col["assists_per90"]>> >>,
     factor |-> RMul(LeagueOf(x), AgeFactorOf(x))]

passing(x) ==
    [terms  |-> << <<30, x.col["passes_per90"]>>, <<25, x.col["pass_accuracy"]>>,
                   <<25, x.col["key_passes_per90"]>>, <<20, x.col["assists_per90"]>> >>,
     factor |-> RMul(LeagueOf(x), AgeFactorOf(x))]

shooting(x) ==
    [terms  |-> << <<30, x.col["goals_per90"]>>, <<25, x.col["xG_per90"]>>,
                   <<25, x.col["shots_on_target_per90"]>>,
                   <<20, Ratio(x.col["goals_per90"], x.col["shots_per90"])>> >>,
     factor |-> LeagueOf(x)]

dribbling(x) ==
    [terms  |-> << <<40, x.col["dribbles_per90"]>>,
                   <<40, x.col["dribbles_successful_per90"]>>,
                   <<20, Ratio(x.col["dribbles_successful_per90"],
                               x.col["dribbles_per90"])>> >>,
     factor |-> LeagueOf(x)]

first_touch(x) ==
    [terms  |-> << <<40, x.col["dribbles_successful_per90"]>>,
                   <<30, x.col["pass_accuracy"]>>, <<30, x.col["touches_per90"]>> >>,
     factor |-> AgeFactorOf(x)]

crossing(x) ==
    [terms  |-> << <<50, x.col["key_passes_per90"]>>, <<30, x.col["assists_per90"]>>,
                   <<20, x.col["pass_accuracy"]>> >>,
     factor |-> LeagueOf(x)]

finishing(x) ==
    [terms  |-> << <<40, x.col["goals_per90"]>>,
                   <<30, x.col["shots_on_target_per90"]>>,
                   <<30, Ratio(x.col["goals_per90"], x.col["xG_per90"])>> >>,
     factor |-> R(1)]

long_shots(x) ==
    [terms  |-> << <<40, x.col["shots_per90"]>>, <<30, x.col["xG_per90"]>>,
                   <<30, Ratio(x.col["shots_on_target_per90"],
                               x.col["shots_per90"])>> >>,
     factor |-> LeagueOf(x)]

pace(x) ==
    [terms  |-> << <<40, x.col["dribbles_per90"]>>, <<30, x.col["pressures_per90"]>>,
                   <<30, x.col["dribbles_successful_per90"]>> >>,
     factor |-> AgeFactorOf(x)]

acceleration(x) ==
    [terms  |-> << <<50, x.col["dribbles_successful_per90"]>>,
                   <<30, x.col["dribbles_per90"]>>, <<20, x.col["pressures_per90"]>> >>,
     factor |-> IF x.age <= 23 THEN Frac(110, 100) ELSE R(1)]

stamina(x) ==
    [terms  |-> << <<40, Frac(x.minutes_played, 1000)>>,
                   <<30, x.col["pressures_per90"]>>, <<30, x.col["tackles_per90"]>> >>,
     factor |-> IF x.age > 30 THEN Frac(90, 100) ELSE R(1)]

strength(x) ==
    [terms  |-> << <<40, x.col["aerial_duels_per90"]>>, <<30, x.col["tackles_per90"]>>,
                   <<30, x.col["aerial_duels_won_per90"]>> >>,
     factor |-> AgeBand(x, 25, 30, 105)]

jumping_reach(x) ==
    [terms  |-> << <<60, x.col["aerial_duels_won_per90"]>>,
                   <<40, x.col["aerial_duels_per90"]>> >>,
     factor |-> AgeBand(x, 25, 30, 105)]

positioning(x) ==
    [terms  |-> << <<30, x.col["interceptions_per90"]>>,
                   <<25, x.col["key_passes_per90"]>>, <<25, x.col["pressures_per90"]>>,
                   <<20, x.col["tackles_per90"]>> >>,
     factor |-> IF x.age >= 28 THEN Frac(110, 100) ELSE R(1)]

vision(x) ==
    [terms  |-> << <<40, x.col["key_passes_per90"]>>, <<30, x.col["assists_per90"]>>,
                   <<30, x.col["passes_per90"]>> >>,
     factor |-> LeagueOf(x)]

composure(x) ==
    [terms  |-> << <<40, x.col["pass_accuracy"]>>,
                   <<30, x.col["dribbles_successful_per90"]>>,
                   <<30, x.col["goals_per90"]>> >>,
     factor |-> R(1)]

concentration(x) ==
    [terms  |-> << <<40, x.col["interceptions_per90"]>>,
                   <<30, x.col["tackles_won_per90"]>>,
                   <<30, x.col["clearances_per90"]>> >>,
     factor |-> IF x.age >= 26 THEN Frac(110, 100) ELSE R(1)]

decisions(x) ==
    [terms  |-> << <<30, x.col["key_passes_per90"]>>,
                   <<25, x.col["tackles_won_per90"]>>,
                   <<25, x.col["dribbles_successful_per90"]>>,
                   <<20, RAdd(x.col["assists_per90"], x.col["goals_per90"])>> >>,
     factor |-> IF x.age >= 24 THEN Frac(110, 100) ELSE R(1)]

leadership(x) ==
    [terms  |-> << <<40, Frac(x.minutes_played, 1000)>>,
                   <<30, x.col["assists_per90"]>>, <<30, x.col["goals_per90"]>> >>,
     factor |-> IF x.age >= 28 THEN Frac(120, 100) ELSE R(1)]

tackling(x) ==
    [terms  |-> << <<50, x.col["tackles_won_per90"]>>, <<30, x.col["tackles_per90"]>>,
                   <<20, Ratio(x.col["tackles_won_per90"], x.col["tackles_per90"])>> >>,
     factor |-> AgeBand(x, 25, 30, 105)]

marking(x) ==
    [terms  |-> << <<40, x.col["interceptions_per90"]>>,
                   <<30, x.col["pressures_per90"]>>, <<30, x.col["tackles_per90"]>> >>,
     factor |-> IF x.age >= 26 THEN Frac(110, 100) ELSE R(1)]

heading(x) ==
    [terms  |-> << <<60, x.col["aerial_duels_won_per90"]>>,
                   <<40, x.col["aerial_duels_per90"]>> >>,
     factor |-> AgeBand(x, 25, 30, 105)]

goalkeeping(x) ==
    [terms  |-> << <<40, x.col["saves_per90"]>>, <<30, x.col["clean_sheets"]>>,
                   <<30, RSub(R(100), RMul(x.col["goals_conceded_per90"], R(10)))>> >>,
     factor |-> IF x.age >= 26 THEN Frac(110, 100) ELSE R(1)]

reflexes(x) ==
    [terms  |-> << <<100, x.col["saves_per90"]>> >>,
     factor |-> IF x.age <= 28 THEN Frac(105, 100) ELSE R(1)]

handling(x) ==
    [terms  |-> << <<60, x.col["clean_sheets"]>>, <<40, x.col["pass_accuracy"]>> >>,
     factor |-> IF x.age >= 26 THEN Frac(110, 100) ELSE R(1)]

kicking(x) ==
    [terms  |-> << <<50, x.col["passes_per90"]>>, <<50, x.col["pass_accuracy"]>> >>,
     factor |-> LeagueOf(x)]

\* attr_cols, the sub-attributes in the order the script computes and saves them
AttrNames == <<"passing", "shooting", "dribbling", "first_touch", "crossing",
               "finishing", "long_shots",
               "pace", "acceleration", "stamina", "strength", "jumping_reach",
               "positioning", "vision", "composure", "concentration", "decisions",
               "leadership",
               "tackling", "marking", "heading",
               "goalkeeping", "reflexes", "handling", "kicking">>

AttrSet == {AttrNames[k] : k \in 1..Len(AttrNames)}

Formula(name, x) ==
    CASE name = "passing" -> passing(x)
      [] name = "shooting" -> shooting(x)
      [] name = "dribbling" -> dribbling(x)
      [] name = "first_touch" -> first_touch(x)
      [] name = "crossing" -> crossing(x)
      [] name = "finishing" -> finishing(x)
      [] name = "long_shots" -> long_shots(x)
      [] name = "pace" -> pace(x)
      [] name = "acceleration" -> acceleration(x)
      [] name = "stamina" -> stamina(x)
      [] name = "strength" -> strength(x)
      [] name = "jumping_reach" -> jumping_reach(x)
      [] name = "positioning" -> positioning(x)
      [] name = "vision" -> vision(x)
      [] name = "composure" -> composure(x)
      [] name = "concentration" -> concentration(x)
      [] name = "decisions" -> decisions(x)
      [] name = "leadership" -> leadership(x)
      [] name = "tackling" -> tackling(x)
      [] name = "marking" -> marking(x)
      [] name = "heading" -> heading(x)
      [] name = "goalkeeping" -> goalkeeping(x)
      [] name = "reflexes" -> reflexes(x)
      [] name = "handling" -> handling(x)
      [] name = "kicking" -> kicking(x)

\* the argument handed to percentile_to_1_20 for one row
PreScale(name, x) ==
    LET f == Formula(name, x) IN RMul(WeightedSum(f.terms), f.factor)

\* df_stats[name] = percentile_to_1_20(...), for every sub-attribute: the
\* result maps each name to the scaled Series
CalculateAttributes(df) ==
    LET mins == [i \in 1..Len(df) |-> df[i].minutes_played]
    IN  [name \in AttrSet |->
            percentile_to_1_20([i \in 1..Len(df) |-> PreScale(name, df[i])],
                               mins, MinMinutes)]

\* ------------------------------------------------------------------------
\* 5_calculate_player_attributes.py: composite ratings
\* ------------------------------------------------------------------------
PositionWeights(position_type) ==
    IF position_type = "GK"
    THEN << <<40, "goalkeeping">>, <<20, "reflexes">>, <<20, "handling">>,
            <<20, "kicking">> >>
    ELSE IF position_type = "DEF"
    THEN << <<25, "tackling">>, <<25, "marking">>, <<20, "heading">>,
            <<15, "positioning">>, <<15, "pace">> >>
    ELSE IF position_type = "MID"
    THEN << <<25, "passing">>, <<20, "vision">>, <<15, "positioning">>,
            <<15, "dribbling">>, <<15, "tackling">>, <<10, "stamina">> >>
    ELSE << <<30, "shooting">>, <<20, "pace">>, <<20, "dribbling">>,
            <<15, "finishing">>, <<15, "positioning">> >>

PositionAgeFactor(position_type, age) ==
    IF position_type = "GK"
    THEN (IF 28 <= age /\ age <= 32 THEN Frac(110, 100) ELSE R(1))
    ELSE IF position_type = "DEF"
    THEN (IF 26 <= age /\ age <= 30 THEN Frac(105, 100) ELSE R(1))
    ELSE IF position_type = "MID"
    THEN (IF 24 <= age /\ age <= 28 THEN Frac(105, 100) ELSE R(1))
    ELSE (IF 22 <= age /\ age <= 26 THEN Frac(105, 100) ELSE R(1))

\* row: the df_stats row x with its scaled sub-attributes at[name]
compute_position_CA(x, at, position_type) ==
    LET w       == PositionWeights(position_type)
        base_ca == WeightedSum([k \in 1..Len(w) |-> <<w[k][1], at[w[k][2]]>>])
    IN  Round2(RMul(RMul(base_ca, get_league_coefficient(x.competition_id)),
                    PositionAgeFactor(position_type, x.age)))

\* the blend clipped to the scale of the sub-attributes: .round(2).clip(upper=20)
OverallCA_clamped(gk, def, mid, fwd) ==
    Min2(R(20),
         Round2(WeightedSum(<< <<10, gk>>, <<30, def>>, <<30, mid>>, <<30, fwd>> >>)))

\* df_stats["CA"] = (CA_GK * 0.1 + CA_DEF * 0.3 + CA_MID * 0.3 + CA_FWD * 0.3).round(2)
OverallCA(gk, def, mid, fwd) ==
    Round2(WeightedSum(<< <<10, gk>>, <<30, def>>, <<30, mid>>, <<30, fwd>> >>))

\* base_uplift of compute_PA
BaseUplift(age) ==
    IF age <= 20 THEN 6 ELSE IF age <= 24 THEN 4 ELSE IF age <= 28 THEN 2 ELSE 0

\* compute_PA(ca, age); noise is the value np.random.normal(0, variance) returned
compute_PA(ca, age, noise) ==
    LET total_uplift == RAdd(R(BaseUplift(age)), noise)
    IN  Min2(R(20), Max2(ca, RAdd(ca, total_uplift)))

\* ------------------------------------------------------------------------
\* map_stats_bomb_db_fixed.py: the rating part of the single-script pipeline.
\* Its df_stats has no age column until after PA, so x.get('age', 25) is 25.
\* ------------------------------------------------------------------------
\* x.get('age', 25) made a field of the row
WithDefaultAge(x) == x @@ [age |-> 25]

calculate_pressure_performance(x) ==
    IF x.competition_id \in {37, 43, 50} THEN Frac(110, 100) ELSE R(1)

\* lines 697-907: the formulas of the rating stage, with shooting, finishing
\* and composure multiplied by calculate_pressure_performance
EnhancedFormula(name, x) ==
    LET f == Formula(name, WithDefaultAge(x))
    IN  IF name \in {"shooting", "finishing", "composure"}
        THEN [f EXCEPT !.factor = RMul(@, calculate_pressure_performance(x))]
        ELSE f

EnhancedPreScale(name, x) ==
    LET f == EnhancedFormula(name, x) IN RMul(WeightedSum(f.terms), f.factor)

CalculateEnhancedAttributes(df) ==
    LET mins == [i \in 1..Len(df) |-> df[i].minutes_played]
    IN  [name \in AttrSet |->
            percentile_to_1_20([i \in 1..Len(df) |-> EnhancedPreScale(name, df[i])],
                               mins, MinMinutes)]

\* compute_position_CA of lines 910-945
compute_position_CA_enhanced(x, at, position_type) ==
    LET w       == PositionWeights(position_type)
        base_ca == WeightedSum([k \in 1..Len(w) |-> <<w[k][1], at[w[k][2]]>>])
    IN  Round2(RMul(RMul(RMul(base_ca, get_league_coefficient(x.competition_id)),
                         PositionAgeFactor(position_type, WithDefaultAge(x).age)),
                    calculate_pressure_performance(x)))

\* 1.0 + (max_ca - min_ca) / max_ca: the spread taken whole instead of a tenth
calculate_versatility_factor_unweighted(gk, def, mid, fwd) ==
    LET max_ca == Max2(Max2(gk, def), Max2(mid, fwd))
        min_ca == Min2(Min2(gk, def), Min2(mid, fwd))
    IN  IF RLess(R(0), max_ca)
        THEN RAdd(R(1), RDiv(RSub(max_ca, min_ca), max_ca))
        ELSE R(1)

\* calculate_versatility_factor(row) on the row's four position CAs
calculate_versatility_factor(gk, def, mid, fwd) ==
    LET max_ca == Max2(Max2(gk, def), Max2(mid, fwd))
        min_ca == Min2(Min2(gk, def), Min2(mid, fwd))
    IN  IF RLess(R(0), max_ca)
        THEN Min2(Frac(12, 10),
                  RAdd(R(1), RDiv(RMul(Frac(1, 10), RSub(max_ca, min_ca)), max_ca)))
        ELSE R(1)

\* calculate_consistency_factor(row) of lines 966-972
calculate_consistency_factor(x) ==
    IF WithDefaultAge(x).age >= 26 THEN Frac(105, 100) ELSE R(1)

\* df_stats["CA"] of lines 979-986
OverallCA_enhanced(gk, def, mid, fwd, versatility_factor, consistency_factor) ==
    Round2(RMul(RMul(WeightedSum(<< <<10, gk>>, <<30, def>>, <<30, mid>>,
                                    <<30, fwd>> >>),
                     versatility_factor),
                consistency_factor))

\* compute_PA(ca, age, league_coeff, versatility_factor) of lines 989-1015;
\* noise is the value np.random.normal(0, variance) returned
compute_PA_enhanced(ca, age, league_coeff, versatility_factor, noise) ==
    LET league_bonus      == RMul(RSub(league_coeff, Frac(8, 10)), R(2))
        versatility_bonus == RMul(RSub(versatility_factor, R(1)), R(3))
        total_uplift      == RAdd(RAdd(RAdd(R(BaseUplift(age)), league_bonus),
                                       versatility_bonus),
                                  noise)
    IN  Min2(R(20), Max2(ca, RAdd(ca, total_uplift)))

\* SELECT ps.*, p.player_name FROM player_stats ps JOIN players p
\*   ON ps.player_id = p.player_id
RECURSIVE JoinStats(_, _)
JoinStats(ps, pl) ==
    IF ps = <<>> THEN <<>>
    ELSE LET r == Head(ps)
             m == SelectSeq(pl, LAMBDA p : p.player_id = r.player_id)
         IN  [k \in 1..Len(m) |->
                 [player_name |-> m[k].player_name,
                  competition_id |-> r.competition_id,
                  minutes_played |-> r.minutes_played,
                  col |-> r.col]]
             \o JoinStats(Tail(ps), pl)

\* df_stats["touches_per90"] = (passes_per90 + dribbles_per90).fillna(0)
WithTouches(x) ==
    LET v == RAdd(x.col["passes_per90"], x.col["dribbles_per90"])
    IN  [x EXCEPT !.col["touches_per90"] = IF IsNaN(v) THEN R(0) ELSE v]

\* ------------------------------------------------------------------------
\* The scaler on its own: any metric vector, any minutes
\* ------------------------------------------------------------------------
MetricNums == {0 - 1, 0, 1, 7}

MetricUnits == {1, InvEps}

MetricVals(u) == {NaN} \cup {Frac(k, u) : k \in MetricNums}

MinutesVals == {MinMinutes - 1, MinMinutes}

ScalerIdle == series = <<>> /\ minutes = <<>> /\ scaled = <<>> /\ branch = "none"

FactorIdle ==
    /\ league_comp_id = 0 /\ league_coefficient = NaN
    /\ position_cas = <<>> /\ versatility = NaN

RateIdle ==
    rate_in = <<>> /\ rate_out = <<>> /\ pre_passing = NaN /\ pre_scale = <<>>

DbIdle == players = <<>> /\ player_stats = <<>> /\ player_attributes = <<>>

RatingIdle ==
    /\ df_stats = <<>> /\ attrs = <<>> /\ ratings = <<>> /\ pa = <<>>
    /\ age_draws = <<>> /\ noise_draws = <<>> /\ runs = 0 /\ first_saved = <<>>

NoFile == [exists |-> FALSE, content |-> <<>>]

EventsIdle ==
    /\ matches_table = {} /\ checkpoint_file = NoFile /\ players_csv = NoFile
    /\ processed_matches = {} /\ all_players = <<>> /\ to_process = <<>>
    /\ loop_i = 0 /\ event_runs = 0 /\ fetched = <<>>

AggIdle == agg = <<>> /\ agg_runs = 0

FetchIdle ==
    /\ progress_file = NoFile /\ completed_matches = {} /\ stored_details = {}
    /\ detail_requests = <<>> /\ fetch_i = 0 /\ fetch_runs = 0

InitScale ==
    /\ pc = "scale"
    /\ \E n \in 1..MaxPop, u \in MetricUnits :
          /\ series \in [1..n -> MetricVals(u)]
          /\ minutes \in [1..n -> MinutesVals]
    /\ scaled = <<>>
    /\ branch = "none"
    /\ FactorIdle /\ FetchIdle
    /\ RateIdle /\ DbIdle /\ RatingIdle /\ EventsIdle /\ AggIdle

ApplyScaler ==
    /\ pc = "scale"
    /\ LET run == ScalerRun(series, minutes, MinMinutes)
       IN  scaled' = run.out /\ branch' = run.branch
    /\ pc' = "scaled"
    /\ UNCHANGED <<series, minutes, factorVars, fetchVars, rateVars, dbVars, ratingVars, eventVars, aggVars>>

NextScale == ApplyScaler

SpecScale == InitScale /\ [][NextScale]_vars

\* ------------------------------------------------------------------------
\* The context factors called on their own: get_league_coefficient on a
\* competition id, calculate_versatility_factor on a row's position CAs
\* ------------------------------------------------------------------------
MaxCompetitionId == 75

\* position CAs handed over: none, the lowest a rated row gets, one above 20
PositionCAVals == {R(0), Frac(4, 5), Frac(121, 5)}

InitFactors ==
    /\ pc = "factors"
    /\ league_comp_id \in 0..MaxCompetitionId
    /\ league_coefficient = NaN
    /\ position_cas \in [1..4 -> PositionCAVals]
    /\ versatility = NaN
    /\ ScalerIdle /\ FetchIdle /\ RateIdle /\ DbIdle /\ RatingIdle /\ EventsIdle
    /\ AggIdle

\* get_league_coefficient(x.get('competition_id', 0))
ApplyLeagueCoefficient ==
    /\ pc = "factors"
    /\ league_coefficient = NaN
    /\ league_coefficient' = get_league_coefficient(league_comp_id)
    /\ UNCHANGED <<pc, league_comp_id, position_cas, versatility, scalerVars,
                   fetchVars, rateVars, dbVars, ratingVars, eventVars, aggVars>>

\* df_stats.apply(calculate_versatility_factor, axis=1) on one row
ApplyVersatility ==
    /\ pc = "factors"
    /\ versatility = NaN
    /\ versatility' = calculate_versatility_factor(position_cas[1], position_cas[2],
                                                   position_cas[3], position_cas[4])
    /\ UNCHANGED <<pc, league_comp_id, league_coefficient, position_cas, scalerVars,
                   fetchVars, rateVars, dbVars, ratingVars, eventVars, aggVars>>

NextFactors == ApplyLeagueCoefficient \/ ApplyVersatility

SpecFactors == InitFactors /\ [][NextFactors]_vars

\* ------------------------------------------------------------------------
\* The rating stage (5_calculate_player_attributes.py) on a database
\* ------------------------------------------------------------------------
MaxRated == 2

MaxRuns == 2

MaxRerunPop == 1

NoCounts == [c \in CountCols |-> R(0)]

\* aggregated players as the aggregation stage sums them (assists = goals,
\* as the event stage writes both from the same shots)
RegularPlayer ==
    [minutes_played |-> 900, matches_played |-> 10,
     cnt |-> ("passes" :> R(450) @@ "completed_passes" :> R(400)
              @@ "key_passes" :> R(20) @@ "assists" :> R(3) @@ "goals" :> R(3)
              @@ "shots" :> R(20) @@ "shots_on_target" :> R(10) @@ "xG" :> R(2)
              @@ "dribbles" :> R(10) @@ "dribbles_successful" :> R(5)
              @@ "tackles" :> R(20) @@ "tackles_won" :> R(10)
              @@ "interceptions" :> R(10) @@ "clearances" :> R(10)
              @@ "aerial_duels" :> R(10) @@ "aerial_duels_won" :> R(5)
              @@ "pressures" :> R(100) @@ NoCounts)]

ReservePlayer ==
    [minutes_played |-> 450, matches_played |-> 5,
     cnt |-> ("passes" :> R(100) @@ "completed_passes" :> R(80)
              @@ "shots" :> R(5) @@ "shots_on_target" :> R(5) @@ "xG" :> Frac(1, 2)
              @@ "dribbles" :> R(20) @@ "dribbles_successful" :> R(10)
              @@ "tackles" :> R(5) @@ "pressures" :> R(50) @@ NoCounts)]

DebutPlayer ==
    [minutes_played |-> 90, matches_played |-> 1,
     cnt |-> ("passes" :> R(10) @@ "completed_passes" :> R(10) @@ NoCounts)]

\* a player_stats row: the aggregated rows carry competition_id 0; the schema
\* also provides for rows of one competition (37: Champions League)
StatsRow(id, comp, a) ==
    [player_id |-> id, competition_id |-> comp, season_id |-> 0,
     minutes_played |-> a.minutes_played, matches_played |-> a.matches_played,
     col |-> StatsOf(a)]

RatedRows(id) ==
    {StatsRow(id, 0, RegularPlayer), StatsRow(id, 37, RegularPlayer),
     StatsRow(id, 0, ReservePlayer), StatsRow(id, 0, DebutPlayer)}

PlayerNames == <<"A", "B", "C", "D">>

\* ages np.random.randint(18, 35) can return
AgeVals == {20, 28, 33}

\* values np.random.normal(0, variance) can return
NoiseVals == {Frac(0 - 3, 1), R(0), Frac(5, 2)}

RatingTables(maxn) ==
    \E n \in 0..maxn :
        /\ players = [i \in 1..n |-> [player_id |-> i, player_name |-> PlayerNames[i]]]
        /\ \E rows \in [1..n -> UNION {RatedRows(i) : i \in 1..n}] :
              /\ \A i \in 1..n : rows[i].player_id = i
              /\ player_stats = rows

InitRating ==
    /\ pc = "load"
    /\ RatingTables(MaxRated)
    /\ player_attributes = <<>>
    /\ ScalerIdle /\ FactorIdle /\ FetchIdle /\ RateIdle /\ RatingIdle /\ EventsIdle /\ AggIdle

InitRerun ==
    /\ pc = "load"
    /\ RatingTables(MaxRerunPop)
    /\ player_attributes = <<>>
    /\ ScalerIdle /\ FactorIdle /\ FetchIdle /\ RateIdle /\ RatingIdle /\ EventsIdle /\ AggIdle

\* the check read as if no result were ever empty
NoPlayerStats_never(df) == FALSE

\* if len(df_stats) == 0: print("No player stats found in database"),
\* conn.close(), exit()
NoPlayerStats(df) == Len(df) = 0

\* lines 22-36 and 74: load, stop on an empty result, touches_per90, ages
LoadStats ==
    /\ pc = "load"
    /\ LET df == JoinStats(player_stats, players)
       IN  IF NoPlayerStats(df)
           THEN /\ pc' = "exit"
                /\ UNCHANGED <<df_stats, age_draws>>
           ELSE /\ \E ages \in [1..Len(df) -> AgeVals] :
                      /\ runs > 0 => ages = age_draws
                      /\ age_draws' = ages
                      /\ df_stats' = [i \in 1..Len(df) |->
                             [age |-> ages[i]] @@ WithTouches(df[i])]
                /\ pc' = "attributes"
    /\ UNCHANGED <<scalerVars, factorVars, fetchVars, rateVars, dbVars, attrs, ratings, pa,
                   noise_draws, runs, first_saved, eventVars, aggVars>>

\* lines 84-266
CalcAttributes ==
    /\ pc = "attributes"
    /\ attrs' = CalculateAttributes(df_stats)
    /\ pc' = "position"
    /\ UNCHANGED <<scalerVars, factorVars, fetchVars, rateVars, dbVars, df_stats, ratings, pa,
                   age_draws, noise_draws, runs, first_saved, eventVars, aggVars>>

RowAttrs(at, i) == [name \in AttrSet |-> at[name][i]]

\* lines 296-307
CalcCA ==
    /\ pc = "position"
    /\ ratings' = [i \in 1..Len(df_stats) |->
          LET x   == df_stats[i]
              at  == RowAttrs(attrs, i)
              gk  == compute_position_CA(x, at, "GK")
              def == compute_position_CA(x, at, "DEF")
              mid == compute_position_CA(x, at, "MID")
              fwd == compute_position_CA(x, at, "FWD")
          IN  [CA_GK |-> gk, CA_DEF |-> def, CA_MID |-> mid, CA_FWD |-> fwd,
               CA |-> OverallCA(gk, def, mid, fwd)]]
    /\ pc' = "potential"
    /\ UNCHANGED <<scalerVars, factorVars, fetchVars, rateVars, dbVars, df_stats, attrs, pa,
                   age_draws, noise_draws, runs, first_saved, eventVars, aggVars>>

\* line 327
CalcPA ==
    /\ pc = "potential"
    /\ \E noise \in [1..Len(df_stats) -> NoiseVals] :
          /\ runs > 0 => noise = noise_draws
          /\ noise_draws' = noise
          /\ pa' = [i \in 1..Len(df_stats) |->
                       compute_PA(ratings[i].CA, df_stats[i].age, noise[i])]
    /\ pc' = "save"
    /\ UNCHANGED <<scalerVars, factorVars, fetchVars, rateVars, dbVars, df_stats, attrs, ratings,
                   age_draws, runs, first_saved, eventVars, aggVars>>

\* to_sql(ATTR_TABLE, conn, if_exists='append') without the DROP TABLE
SavedTable_append(existing, df_save) == existing \o df_save

\* DROP TABLE IF EXISTS player_attributes; df_save.to_sql(ATTR_TABLE, conn)
SavedTable(existing, df_save) == df_save

\* lines 334-352
SaveAttributes ==
    /\ pc = "save"
    /\ LET df_save == [i \in 1..Len(df_stats) |->
                          [player_name |-> df_stats[i].player_name,
                           at |-> RowAttrs(attrs, i),
                           CA |-> ratings[i].CA, PA |-> pa[i],
                           CA_GK |-> ratings[i].CA_GK, CA_DEF |-> ratings[i].CA_DEF,
                           CA_MID |-> ratings[i].CA_MID, CA_FWD |-> ratings[i].CA_FWD]]
           saved   == SavedTable(player_attributes, df_save)
       IN  /\ player_attributes' = saved
           /\ first_saved' = IF runs = 0 THEN saved ELSE first_saved
    /\ runs' = runs + 1
    /\ pc' = "done"
    /\ UNCHANGED <<scalerVars, factorVars, fetchVars, rateVars, players, player_stats, df_stats, attrs,
                   ratings, pa, age_draws, noise_draws, eventVars, aggVars>>

\* the script is started again on the same database, the random source
\* returning what it returned before
RunAgain ==
    /\ pc = "done"
    /\ runs < MaxRuns
    /\ pc' = "load"
    /\ df_stats' = <<>> /\ attrs' = <<>> /\ ratings' = <<>> /\ pa' = <<>>
    /\ UNCHANGED <<scalerVars, factorVars, fetchVars, rateVars, dbVars, age_draws, noise_draws, runs,
                   first_saved, eventVars, aggVars>>

NextRating ==
    \/ LoadStats
    \/ CalcAttributes
    \/ CalcCA
    \/ CalcPA
    \/ SaveAttributes

SpecRating == InitRating /\ [][NextRating]_vars

NextRerun ==
    \/ LoadStats
    \/ CalcAttributes
    \/ CalcCA
    \/ CalcPA
    \/ SaveAttributes
    \/ RunAgain

SpecRerun == InitRerun /\ [][NextRerun]_vars

\* ------------------------------------------------------------------------
\* Either rating script started on a database that may hold the
\* player_attributes an earlier run stored
\* ------------------------------------------------------------------------
\* one row left by an earlier run, of a player no longer in player_stats
StoredAttributes ==
    << [player_name |-> PlayerNames[4],
        at |-> [name \in AttrSet |-> R(1)],
        CA |-> Frac(83, 100), PA |-> Frac(283, 100),
        CA_GK |-> Frac(88, 100), CA_DEF |-> Frac(84, 100),
        CA_MID |-> Frac(84, 100), CA_FWD |-> Frac(80, 100)] >>

InitDatabase ==
    /\ pc \in {"load", "enh_load"}
    /\ RatingTables(MaxRerunPop)
    /\ player_attributes \in {<<>>, StoredAttributes}
    /\ ScalerIdle /\ FactorIdle /\ FetchIdle /\ RateIdle /\ RatingIdle /\ EventsIdle /\ AggIdle

\* map_stats_bomb_db_fixed.py lines 598-609: load, stop on an empty result;
\* the rows have no age column and touches_per90 as the table holds it
EnhancedLoad ==
    /\ pc = "enh_load"
    /\ LET df == JoinStats(player_stats, players)
       IN  IF NoPlayerStats(df)
           THEN pc' = "exit" /\ UNCHANGED df_stats
           ELSE pc' = "enh_attributes" /\ df_stats' = df
    /\ UNCHANGED <<scalerVars, factorVars, fetchVars, rateVars, dbVars, attrs, ratings, pa,
                   age_draws, noise_draws, runs, first_saved, eventVars, aggVars>>

\* lines 697-907
EnhancedAttributes ==
    /\ pc = "enh_attributes"
    /\ attrs' = CalculateEnhancedAttributes(df_stats)
    /\ pc' = "enh_position"
    /\ UNCHANGED <<scalerVars, factorVars, fetchVars, rateVars, dbVars, df_stats, ratings, pa,
                   age_draws, noise_draws, runs, first_saved, eventVars, aggVars>>

\* lines 948-986: position CAs, versatility_factor, consistency_factor, CA
EnhancedCA ==
    /\ pc = "enh_position"
    /\ ratings' = [i \in 1..Len(df_stats) |->
          LET x   == df_stats[i]
              at  == RowAttrs(attrs, i)
              gk  == compute_position_CA_enhanced(x, at, "GK")
              def == compute_position_CA_enhanced(x, at, "DEF")
              mid == compute_position_CA_enhanced(x, at, "MID")
              fwd == compute_position_CA_enhanced(x, at, "FWD")
              v   == calculate_versatility_factor(gk, def, mid, fwd)
              c   == calculate_consistency_factor(x)
          IN  [CA_GK |-> gk, CA_DEF |-> def, CA_MID |-> mid, CA_FWD |-> fwd,
               versatility_factor |-> v, consistency_factor |-> c,
               CA |-> OverallCA_enhanced(gk, def, mid, fwd, v, c)]]
    /\ pc' = "enh_potential"
    /\ UNCHANGED <<scalerVars, factorVars, fetchVars, rateVars, dbVars, df_stats, attrs, pa,
                   age_draws, noise_draws, runs, first_saved, eventVars, aggVars>>

\* lines 1018-1026 and 1059-1063: the lambda reads x["age"] before the age
\* column is assigned (line 1029); the KeyError is caught, the transaction
\* rolled back and the connection closed, with nothing dropped or saved
EnhancedPA ==
    /\ pc = "enh_potential"
    /\ pc' = "enh_failed"
    /\ UNCHANGED <<scalerVars, factorVars, fetchVars, rateVars, dbVars, ratingVars, eventVars, aggVars>>

NextEnhanced ==
    \/ EnhancedLoad
    \/ EnhancedAttributes
    \/ EnhancedCA
    \/ EnhancedPA

NextDatabase == NextRating \/ NextEnhanced

SpecDatabase == InitDatabase /\ [][NextDatabase]_vars

\* ------------------------------------------------------------------------
\* One aggregated player through the per-90 step of the aggregation stage and
\* the passing formula of the rating stage
\* ------------------------------------------------------------------------
RateMinutes == {90, 450, 900}

\* summed passes and completed passes (completed passes are among the passes)
RatePasses == {<<0, 0>>, <<10, 10>>, <<450, 400>>}

RateInputs ==
    {[a |-> [minutes_played |-> m, matches_played |-> 10,
             cnt |-> ("passes" :> R(ps[1]) @@ "completed_passes" :> R(ps[2])
                      @@ "key_passes" :> R(k) @@ "assists" :> R(g)
                      @@ "goals" :> R(g) @@ base)],
      competition_id |-> c, age |-> age] :
        m \in RateMinutes, ps \in RatePasses, k \in {0, 20}, g \in {0, 3},
        base \in {NoCounts, RegularPlayer.cnt}, c \in {0, 2}, age \in AgeVals}

InitRate ==
    /\ pc = "per90"
    /\ rate_in \in RateInputs
    /\ rate_out = <<>>
    /\ pre_passing = NaN
    /\ pre_scale = <<>>
    /\ ScalerIdle /\ FactorIdle /\ FetchIdle /\ DbIdle /\ RatingIdle /\ EventsIdle /\ AggIdle

\* 4_aggregate_player_stats.py lines 66-100 and the values of the INSERT
StorePer90 ==
    /\ pc = "per90"
    /\ rate_out' = StatsOf(rate_in.a)
    /\ pc' = "stored"
    /\ UNCHANGED <<rate_in, pre_passing, pre_scale,
                   scalerVars, factorVars, fetchVars, dbVars, ratingVars, eventVars, aggVars>>

\* 5_calculate_player_attributes.py lines 85-90: the argument of
\* percentile_to_1_20 for df_stats["passing"]
WeighPassing ==
    /\ pc = "stored"
    /\ pre_passing' = PreScale("passing",
            [competition_id |-> rate_in.competition_id, age |-> rate_in.age,
             minutes_played |-> rate_in.a.minutes_played, col |-> rate_out])
    /\ pc' = "weighed"
    /\ UNCHANGED <<rate_in, rate_out, pre_scale,
                   scalerVars, factorVars, fetchVars, dbVars, ratingVars, eventVars, aggVars>>

\* the row of df_stats the rating stage loads for the stored player
RateRow ==
    WithTouches([competition_id |-> rate_in.competition_id, age |-> rate_in.age,
                 minutes_played |-> rate_in.a.minutes_played, col |-> rate_out])

\* 5_calculate_player_attributes.py lines 84-266 for that row: the value
\* handed to percentile_to_1_20 and the value of s = Series(...).fillna(0)
WeighAttributes ==
    /\ pc = "weighed"
    /\ pre_scale' = [name \in AttrSet |->
                        [metric |-> PreScale(name, RateRow),
                         s |-> fillna(<<PreScale(name, RateRow)>>)[1]]]
    /\ pc' = "formulas"
    /\ UNCHANGED <<rate_in, rate_out, pre_passing,
                   scalerVars, factorVars, fetchVars, dbVars, ratingVars, eventVars, aggVars>>

NextRate == StorePer90 \/ WeighPassing \/ WeighAttributes

SpecRate == InitRate /\ [][NextRate]_vars

\* ------------------------------------------------------------------------
\* Properties of the scaler (SpecScale)
\* ------------------------------------------------------------------------
Rows == 1..Len(series)

InRange1to20(x) == RLeq(R(1), x) /\ RLeq(x, R(20))

\* C2: every value percentile_to_1_20 returns lies in [1, 20], in the
\* percentile branch and in the min-max fallback branch.
C2_ScaledInRange ==
    pc = "scaled" => \A i \in Rows : InRange1to20(scaled[i])

C2_Witness ==
    /\ pc = "scaled"
    /\ branch = "fallback"
    /\ \E i, j \in Rows : scaled[i] = R(1) /\ scaled[j] = R(20)

\* C3: the scaler is monotonic: a row with a larger metric never gets a
\* smaller scaled value, in either branch, after rounding to 2 decimals.
C3_Monotonic ==
    pc = "scaled" =>
        \A i, j \in Rows :
            RLess(series[j], series[i]) => RLeq(scaled[j], scaled[i])

C3_Witness ==
    /\ pc = "scaled"
    /\ branch = "percentile"
    /\ \E i, j \in Rows :
          RLess(series[j], series[i]) /\ RLess(scaled[j], scaled[i])

\* C4: the fallback branch is taken exactly when no row has
\* minutes_played >= min_minutes; with a qualifying row the result is the
\* percentile-rank one.
C4_FallbackIffNoQualifier ==
    pc = "scaled" =>
        /\ branch = "fallback" <=> \A i \in Rows : minutes[i] < MinMinutes
        /\ (\A i \in Rows : minutes[i] < MinMinutes)
              => scaled = FallbackBranch(fillna(series))
        /\ (\E i \in Rows : minutes[i] >= MinMinutes)
              => scaled = PercentileBranch(fillna(series), {})

C4_Witness ==
    /\ pc = "scaled"
    /\ branch = "fallback"
    /\ \E i \in Rows : minutes[i] = MinMinutes - 1
    /\ scaled # PercentileBranch(fillna(series), {})

\* the average-rank percentile of row i among all rows, from counts:
\* (rows below + (rows tied + 1) / 2) / n
AvgRankPct(s, i) ==
    LET lo == Cardinality({k \in 1..Len(s) : RLess(s[k], s[i])})
        c  == Cardinality({k \in 1..Len(s) : s[k] = s[i]})
    IN  Frac(2 * lo + c + 1, 2 * Len(s))

\* C5 as stated: in the percentile branch the scaled value equals 1 + 19 * r
\* with r the average-rank percentile among all n rows.
C5_ExactPercentile ==
    pc = "scaled" /\ branch = "percentile" =>
        \A i \in Rows :
            scaled[i] = RAdd(R(1), RMul(R(19), AvgRankPct(fillna(series), i)))

\* C5 amended: in the percentile branch the scaled value equals 1 + 19 * r
\* rounded to 2 decimals, r the average-rank percentile among all n rows;
\* rows with equal metric values get equal scaled values.
C5_RoundedPercentile ==
    pc = "scaled" /\ branch = "percentile" =>
        /\ \A i \in Rows :
              scaled[i] =
                  Round2(RAdd(R(1), RMul(R(19), AvgRankPct(fillna(series), i))))
        /\ \A i, j \in Rows : series[i] = series[j] => scaled[i] = scaled[j]

C5_Witness ==
    /\ pc = "scaled"
    /\ branch = "percentile"
    /\ Len(series) = 3
    /\ \E i, j \in Rows : i # j /\ series[i] = series[j] /\ ~IsNaN(series[i])
    /\ \E i \in Rows :
          scaled[i] # RAdd(R(1), RMul(R(19), AvgRankPct(fillna(series), i)))

C9_Per90Rate ==
    pc \in {"stored", "weighed"} /\ rate_in.a.minutes_played > 0 =>
        \A col \in RateCols \ {"pass_accuracy"} :
            LET c == rate_in.a.cnt[CountOf(col)]
                m == rate_in.a.minutes_played
            IN  /\ RMul(rate_out[col], R(m)) = RMul(c, R(90))
                /\ c = R(0) => rate_out[col] = R(0)
                /\ c = R(450) /\ m = 900 => rate_out[col] = R(45)

C9_Witness ==
    /\ pc = "stored"
    /\ rate_in.a.minutes_played = 900
    /\ rate_in.a.cnt["passes"] = R(450)
    /\ rate_out["passes_per90"] = R(45)
    /\ rate_in.a.cnt["blocks"] = R(0)
    /\ rate_out["blocks_per90"] = R(0)

\* the player of the end-to-end scenario: passes=450, completed_passes=400,
\* key_passes=20, assists=3, minutes_played=900, league coefficient 1.0 and
\* age factor 1.0
ScenarioPlayer ==
    /\ pc = "weighed"
    /\ rate_in.a.minutes_played = 900
    /\ rate_in.a.cnt["passes"] = R(450)
    /\ rate_in.a.cnt["completed_passes"] = R(400)
    /\ rate_in.a.cnt["key_passes"] = R(20)
    /\ rate_in.a.cnt["assists"] = R(3)
    /\ get_league_coefficient(rate_in.competition_id) = R(1)
    /\ calculate_age_factor(rate_in.age) = R(1)

\* C10 as stated: the scenario player's passing value before scaling is
\* exactly 35.8225.
C10_PassingIs358225 == ScenarioPlayer => pre_passing = Frac(358225, 10000)

\* C10 amended: the scenario player's passing value before scaling is
\* 0.3*45 + 0.25*(400/450*100) + 0.25*2 + 0.2*0.3 = 16327/450 = 36.2822...,
\* with passes_per90 = 45, key_passes_per90 = 2, assists_per90 = 0.3 and the
\* pass accuracy 88.888... not rounded.
C10_PassingIs16327over450 ==
    ScenarioPlayer =>
        /\ rate_out["passes_per90"] = R(45)
        /\ rate_out["key_passes_per90"] = R(2)
        /\ rate_out["assists_per90"] = Frac(3, 10)
        /\ rate_out["pass_accuracy"] = Frac(800, 9)
        /\ pre_passing = Frac(16327, 450)

C10_Witness == ScenarioPlayer /\ rate_in.a.cnt["shots"] = R(20)


\* ------------------------------------------------------------------------
\* 3_process_match_events.py: per-match player rows, with checkpoints
\* ------------------------------------------------------------------------
MaxMatches == 2
MaxEventRuns == 2
MaxAggRuns == 2
CHECKPOINT_INTERVAL == 50

\* the match ids the fetch stage writes to data/matches_to_process.txt
all_matches == [k \in 1..MaxMatches |-> 100 + k]

\* one row of the event frame sb.events returns; outcome stands for the
\* <type>_outcome / card_type column of the event's type
Ev(player, minute, type, outcome) ==
    [player |-> player, minute |-> minute, type |-> type, outcome |-> outcome,
     duel_type |-> "nan", pass_goal_assist |-> FALSE,
     shot_statsbomb_xg |-> R(0), pass_statsbomb_xa |-> R(0)]

\* a match where A plays on and B is only seen at the kick-off
FeedStarter ==
    << Ev("nan", 0, "Starting XI", "nan"),
       Ev("A", 0, "Pass", "Complete"),
       Ev("B", 0, "Pass", "Complete"),
       [Ev("A", 30, "Pass", "Complete") EXCEPT !.pass_goal_assist = TRUE,
                                               !.pass_statsbomb_xa = Frac(1, 4)],
       Ev("A", 41, "Pass", "Incomplete"),
       Ev("A", 55, "Dribble", "Complete"),
       [Ev("A", 60, "Shot", "Goal") EXCEPT !.shot_statsbomb_xg = Frac(1, 2)],
       Ev("A", 77, "Shot", "Saved"),
       Ev("A", 90, "Pressure", "nan") >>

\* a match where B comes on late and A has no event
FeedSubstitute ==
    << Ev("B", 80, "Tackle", "Won"),
       [Ev("B", 84, "Duel", "Won") EXCEPT !.duel_type = "Aerial"],
       Ev("B", 85, "Foul Committed", "nan"),
       Ev("B", 85, "Card", "Yellow Card"),
       [Ev("B", 86, "Shot", "Goal") EXCEPT !.shot_statsbomb_xg = Frac(1, 5)],
       Ev("B", 88, "Interception", "nan") >>

\* a match whose events all carry minute 0
FeedKickoff ==
    << Ev("A", 0, "Pass", "Complete"), Ev("B", 0, "Pass", "Incomplete") >>

\* what sb.events(match_id) can do: raise, or return one of the frames
Feeds == {<<>>, FeedStarter, FeedSubstitute, FeedKickoff}

RECURSIVE UniquePlayers(_, _)
\* events["player"].dropna().unique(): in order of first appearance
UniquePlayers(events, seen) ==
    IF events = <<>> THEN <<>>
    ELSE LET p == Head(events).player
         IN  IF p = "nan" \/ p \in seen
             THEN UniquePlayers(Tail(events), seen)
             ELSE <<p>> \o UniquePlayers(Tail(events), seen \cup {p})

RECURSIVE MaxMinute(_)
\* player_events["minute"].max() if len(player_events) > 0 else 0
MaxMinute(player_events) ==
    IF player_events = <<>> THEN 0
    ELSE LET m == MaxMinute(Tail(player_events))
         IN  IF Head(player_events).minute > m THEN Head(player_events).minute ELSE m

RECURSIVE SumCol(_, _)
\* frame[col].sum()
SumCol(rows, col) ==
    IF rows = <<>> THEN R(0) ELSE RAdd(Head(rows)[col], SumCol(Tail(rows), col))

\* the entry "assists" read as the passes flagged as the assist of a goal
CountAssists_fromPasses(passes, goals) ==
    Len(SelectSeq(passes, LAMBDA e : e.pass_goal_assist))

\* "assists": len(goals), with goals = shots[shots["shot_outcome"] == "Goal"]
CountAssists(passes, goals) == Len(goals)

\* the dict player_stat of one player of one match
PlayerStat(player, match_id, match_info, player_events) ==
    LET OfType(ty) == SelectSeq(player_events, LAMBDA e : e.type = ty)
        With(rows, oc) == SelectSeq(rows, LAMBDA e : e.outcome \in oc)
        passes == OfType("Pass")
        shots == OfType("Shot")
        goals == With(shots, {"Goal"})
        dribbles == OfType("Dribble")
        tackles == OfType("Tackle")
        aerial_duels == SelectSeq(OfType("Duel"), LAMBDA e : e.duel_type = "Aerial")
        cards == OfType("Card")
    IN  [player |-> player, match_id |-> match_id,
         competition_id |-> match_info[1], season_id |-> match_info[2],
         minutes_played |-> MaxMinute(player_events), matches_played |-> 1,
         cnt |-> ("passes" :> R(Len(passes))
                  @@ "completed_passes" :> R(Len(With(passes, {"Complete"})))
                  @@ "key_passes" :>
                        R(Len(SelectSeq(passes, LAMBDA e : e.pass_goal_assist)))
                  @@ "assists" :> R(CountAssists(passes, goals))
                  @@ "shots" :> R(Len(shots))
                  @@ "shots_on_target" :> R(Len(With(shots, {"Goal", "Saved"})))
                  @@ "goals" :> R(Len(goals))
                  @@ "xG" :> SumCol(shots, "shot_statsbomb_xg")
                  @@ "xA" :> SumCol(passes, "pass_statsbomb_xa")
                  @@ "dribbles" :> R(Len(dribbles))
                  @@ "dribbles_successful" :> R(Len(With(dribbles, {"Complete"})))
                  @@ "tackles" :> R(Len(tackles))
                  @@ "tackles_won" :> R(Len(With(tackles, {"Won"})))
                  @@ "interceptions" :> R(Len(OfType("Interception")))
                  @@ "clearances" :> R(Len(OfType("Clearance")))
                  @@ "blocks" :> R(Len(OfType("Block")))
                  @@ "aerial_duels" :> R(Len(aerial_duels))
                  @@ "aerial_duels_won" :> R(Len(With(aerial_duels, {"Won"})))
                  @@ "pressures" :> R(Len(OfType("Pressure")))
                  @@ "fouls_committed" :> R(Len(OfType("Foul Committed")))
                  @@ "fouls_won" :> R(Len(OfType("Foul Won")))),
         cards_yellow |-> Len(With(cards, {"Yellow Card"})),
         cards_red |-> Len(With(cards, {"Red Card"})),
         saves |-> 0, clean_sheets |-> 0, goals_conceded |-> 0]

\* the per-player loop with the test on minutes left out
MatchPlayerStats_noskip(events, match_id, match_info) ==
    LET ps == UniquePlayers(events, {})
    IN  [k \in 1..Len(ps) |->
            PlayerStat(ps[k], match_id, match_info,
                       SelectSeq(events, LAMBDA e : e.player = ps[k]))]

\* the list player_stats of one match: "if minutes == 0: continue"
MatchPlayerStats(events, match_id, match_info) ==
    LET ps == UniquePlayers(events, {})
        all == [k \in 1..Len(ps) |->
                   PlayerStat(ps[k], match_id, match_info,
                              SelectSeq(events, LAMBDA e : e.player = ps[k]))]
    IN  SelectSeq(all, LAMBDA r : r.minutes_played # 0)

\* the lines "for match in processed_matches: f.write(...)" write
WriteCheckpoint(processed) == [exists |-> TRUE, content |-> processed]

\* df.to_csv(processed_matches_file, index=False)
to_csv(frame) == [exists |-> TRUE, content |-> frame]

\* pd.read_csv(processed_matches_file)
read_csv(file) == file.content

\* competition_id, season_id of a row of table matches
MatchInfo(match_id) == <<11, (match_id % 2) + 1>>


RECURSIVE SumInt(_, _)
\* frame[col].sum() of an integer column
SumInt(rows, col) ==
    IF rows = <<>> THEN 0 ELSE Head(rows)[col] + SumInt(Tail(rows), col)

RECURSIVE SumCnt(_, _)
\* frame[c].sum() of a counted column
SumCnt(rows, c) ==
    IF rows = <<>> THEN R(0) ELSE RAdd(Head(rows).cnt[c], SumCnt(Tail(rows), c))

\* df_players.groupby("player").agg(...).reset_index(): one row per player,
\* in the order of the keys
GroupByPlayer(df_players) ==
    LET keys == SelectSeq(PlayerNames,
                          LAMBDA n : \E k \in 1..Len(df_players) :
                                        df_players[k].player = n)
        Of(n) == SelectSeq(df_players, LAMBDA r : r.player = n)
    IN  [k \in 1..Len(keys) |->
            [player |-> keys[k],
             minutes_played |-> SumInt(Of(keys[k]), "minutes_played"),
             matches_played |-> SumInt(Of(keys[k]), "matches_played"),
             cnt |-> [c \in CountCols |-> SumCnt(Of(keys[k]), c)],
             cards_yellow |-> SumInt(Of(keys[k]), "cards_yellow"),
             cards_red |-> SumInt(Of(keys[k]), "cards_red")]]

\* the rows INSERT OR IGNORE INTO players (player_name) adds for the frame
InsertPlayers(table, frame) ==
    table \o [k \in 1..Len(frame) |->
                 [player_id |-> Len(table) + k, player_name |-> frame[k].player]]

\* SELECT player_id FROM players WHERE player_name = ? ... fetchone()
player_id_map(table, name) ==
    Head(SelectSeq(table, LAMBDA p : p.player_name = name)).player_id

InitPipeline ==
    /\ pc = "ev_start"
    /\ matches_table \in SUBSET {all_matches[k] : k \in 1..MaxMatches}
    /\ checkpoint_file = NoFile /\ players_csv = NoFile
    /\ processed_matches = {} /\ all_players = <<>> /\ to_process = <<>>
    /\ loop_i = 0 /\ event_runs = 0
    /\ fetched = [m \in {all_matches[k] : k \in 1..MaxMatches} |-> 0]
    /\ ScalerIdle /\ FactorIdle /\ FetchIdle /\ RateIdle /\ DbIdle /\ RatingIdle /\ AggIdle

\* matches_to_process = [m for m in all_matches if str(m) not in processed_matches]
matches_to_process(matches, processed) ==
    SelectSeq(matches, LAMBDA m : ToString(m) \notin processed)

\* the event stage up to its loop: the match list is read as the fetch
\* stage last wrote it (the first n matches), checkpoint and saved rows are
\* loaded
StartEvents ==
    /\ pc \in {"ev_start", "ev_done", "ev_interrupted", "agg_done", "mono_done"}
    /\ event_runs < MaxEventRuns
    /\ \E n \in 1..MaxMatches :
          LET loaded == IF checkpoint_file.exists THEN checkpoint_file.content ELSE {}
          IN  /\ processed_matches' = loaded
              /\ to_process' = matches_to_process(SubSeq(all_matches, 1, n), loaded)
    /\ all_players' = IF players_csv.exists THEN read_csv(players_csv) ELSE <<>>
    /\ loop_i' = 0
    /\ pc' = "ev_loop"
    /\ UNCHANGED <<matches_table, checkpoint_file, players_csv, event_runs,
                   fetched, scalerVars, factorVars, fetchVars, rateVars, dbVars, ratingVars, aggVars>>

\* one iteration of the loop over matches_to_process; when sb.events or the
\* statistics raise, the handler marks the match processed and goes on
ProcessMatch ==
    /\ pc = "ev_loop"
    /\ loop_i < Len(to_process)
    /\ \E events \in Feeds, raised \in BOOLEAN :
          LET match_id == to_process[loop_i + 1]
              done == processed_matches \cup {ToString(match_id)}
              rows == MatchPlayerStats(events, match_id, MatchInfo(match_id))
              kept == all_players \o rows
          IN  /\ processed_matches' = done
              /\ IF raised \/ Len(events) = 0 \/ match_id \notin matches_table
                 THEN UNCHANGED <<all_players, checkpoint_file, players_csv>>
                 ELSE /\ all_players' = kept
                      /\ IF (loop_i + 1) % CHECKPOINT_INTERVAL = 0
                         THEN /\ checkpoint_file' = WriteCheckpoint(done)
                              /\ players_csv' = IF kept # <<>> THEN to_csv(kept)
                                                ELSE players_csv
                         ELSE UNCHANGED <<checkpoint_file, players_csv>>
    /\ fetched' = [fetched EXCEPT ![to_process[loop_i + 1]] = @ + 1]
    /\ loop_i' = loop_i + 1
    /\ UNCHANGED <<pc, matches_table, to_process, event_runs,
                   scalerVars, factorVars, fetchVars, rateVars, dbVars, ratingVars, aggVars>>

\* the final save after the loop
FinalSave ==
    /\ pc = "ev_loop"
    /\ loop_i = Len(to_process)
    /\ IF all_players # <<>>
       THEN /\ checkpoint_file' = WriteCheckpoint(processed_matches)
            /\ players_csv' = to_csv(all_players)
       ELSE UNCHANGED <<checkpoint_file, players_csv>>
    /\ event_runs' = event_runs + 1
    /\ pc' = "ev_done"
    /\ UNCHANGED <<matches_table, processed_matches, all_players, to_process,
                   loop_i, fetched, scalerVars, factorVars, fetchVars, rateVars, dbVars, ratingVars, aggVars>>

\* the event stage is stopped from outside (Ctrl-C, kill) in its loop or in
\* its final save, there between the write of the checkpoint and the write
\* of the rows; what it held in memory is gone, the files stay
Interrupt ==
    /\ pc = "ev_loop"
    /\ \E in_final_save \in BOOLEAN :
          IF in_final_save /\ loop_i = Len(to_process) /\ all_players # <<>>
          THEN checkpoint_file' = WriteCheckpoint(processed_matches)
          ELSE UNCHANGED checkpoint_file
    /\ processed_matches' = {} /\ all_players' = <<>> /\ to_process' = <<>>
    /\ loop_i' = 0
    /\ event_runs' = event_runs + 1
    /\ pc' = "ev_interrupted"
    /\ UNCHANGED <<matches_table, players_csv, fetched,
                   scalerVars, factorVars, fetchVars, rateVars, dbVars, ratingVars, aggVars>>

\* DELETE FROM player_stats WHERE competition_id = 0 AND season_id = 0
DeleteAggregated_none(table) == table

DeleteAggregated(table) ==
    SelectSeq(table, LAMBDA r : ~(r.competition_id = 0 /\ r.season_id = 0))

\* the row written with clean_sheets 0 instead of no value
AggregatedRow_zeroCleanSheets(player_id, row) ==
    [StatsRow(player_id, 0, row) EXCEPT !.col["clean_sheets"] = R(0)]
    @@ [cards_yellow |-> row.cards_yellow, cards_red |-> row.cards_red]

\* the row written under the competition of the matches (11) instead of 0
AggregatedRow_competition11(player_id, row) ==
    StatsRow(player_id, 11, row)
    @@ [cards_yellow |-> row.cards_yellow, cards_red |-> row.cards_red]

\* the row INSERT INTO player_stats writes for one row of agg
AggregatedRow(player_id, row) ==
    StatsRow(player_id, 0, row)
    @@ [cards_yellow |-> row.cards_yellow, cards_red |-> row.cards_red]

\* 4_aggregate_player_stats.py: the whole script, run after the event stage
\* or once more on the same CSV file; pd.read_csv raises when the event stage
\* has written no file
AggregateStats ==
    /\ pc \in {"ev_done", "ev_interrupted", "agg_done"}
    /\ agg_runs < MaxAggRuns
    /\ IF ~players_csv.exists
       THEN /\ pc' = "agg_failed"
            /\ UNCHANGED <<agg, dbVars>>
       ELSE LET frame == GroupByPlayer(read_csv(players_csv))
                table == InsertPlayers(players, frame)
            IN  /\ agg' = [k \in 1..Len(frame) |->
                             frame[k] @@ [col |-> StatsOf(frame[k])]]
                /\ players' = table
                /\ player_stats' =
                      DeleteAggregated(player_stats)
                      \o [k \in 1..Len(frame) |->
                             AggregatedRow(player_id_map(table, frame[k].player),
                                           frame[k])]
                /\ pc' = "agg_done"
                /\ UNCHANGED player_attributes
    /\ agg_runs' = agg_runs + 1
    /\ UNCHANGED <<scalerVars, factorVars, fetchVars, rateVars, ratingVars, eventVars>>

\* players_dict = {name: i for i, name in enumerate(agg["player"], start=1)}
players_dict(frame, name) == CHOOSE i \in 1..Len(frame) : frame[i].player = name

\* map_stats_bomb_db_fixed.py after its own event loop and final save: the
\* rows in memory are aggregated, the players inserted, the statistics
\* inserted under players_dict; nothing is deleted first
MonolithAggregate ==
    /\ pc = "ev_done"
    /\ agg_runs < MaxAggRuns
    /\ LET frame == GroupByPlayer(all_players)
       IN  /\ agg' = [k \in 1..Len(frame) |->
                        frame[k] @@ [col |-> StatsOf(frame[k])]]
           /\ players' = InsertPlayers(players, frame)
           /\ player_stats' =
                 player_stats
                 \o [k \in 1..Len(frame) |->
                        AggregatedRow(players_dict(frame, frame[k].player),
                                      frame[k])]
    /\ pc' = "mono_done"
    /\ agg_runs' = agg_runs + 1
    /\ UNCHANGED <<player_attributes, scalerVars, factorVars, fetchVars, rateVars,
                   ratingVars, eventVars>>

Next ==
    \/ StartEvents
    \/ ProcessMatch
    \/ FinalSave
    \/ Interrupt
    \/ AggregateStats
    \/ MonolithAggregate

Spec == InitPipeline /\ [][Next]_vars

\* 5_calculate_player_attributes.py is started on the database the
\* aggregation stage has filled
RunRatingStage ==
    /\ pc = "agg_done"
    /\ pc' = "load"
    /\ UNCHANGED <<scalerVars, factorVars, fetchVars, rateVars, dbVars, ratingVars,
                   eventVars, aggVars>>

\* the match list of a database in which the fetch stage has stored every
\* match
InitStaged ==
    /\ InitPipeline
    /\ matches_table = {all_matches[k] : k \in 1..MaxMatches}

\* the first run of the event stage
FirstEventRun == event_runs = 0 /\ StartEvents

\* the first run of the aggregation stage
FirstAggregation == agg_runs = 0 /\ AggregateStats

\* the staged pipeline run once on a fresh database: event stage,
\* aggregation stage, rating stage up to the composite ratings
NextStaged ==
    \/ FirstEventRun
    \/ ProcessMatch
    \/ FinalSave
    \/ FirstAggregation
    \/ RunRatingStage
    \/ LoadStats
    \/ CalcAttributes
    \/ CalcCA

SpecStaged == InitStaged /\ [][NextStaged]_vars

\* C8: every row on which the aggregation stage divides by minutes_played/90
\* has minutes_played > 0, and so has every per-match row recorded for it
C8_NoZeroMinuteRate ==
    /\ \A k \in 1..Len(agg) : agg[k].minutes_played > 0
    /\ \A k \in 1..Len(all_players) : all_players[k].minutes_played > 0
    /\ \A k \in 1..Len(players_csv.content) :
          players_csv.content[k].minutes_played > 0

\* the aggregation has run on a match in which A played 90 minutes and B was
\* seen at minute 0 only: B has no row
C8_Witness ==
    /\ pc = "agg_done"
    /\ \E k \in 1..Len(agg) : agg[k].player = "A" /\ agg[k].minutes_played = 90
    /\ \A k \in 1..Len(agg) : agg[k].player # "B"


\* C1: for every player rated, whatever the perturbation drawn, PA >= CA
\* and PA <= 20, including when the factors push CA above 20
C1_PABounds ==
    pc \in {"save", "done"} =>
        \A i \in 1..Len(pa) : RLeq(ratings[i].CA, pa[i]) /\ RLeq(pa[i], R(20))

BaseValue(name, x) == WeightedSum(Formula(name, x).terms)

\* the input metrics of a row
InputMetrics == StatCols \cup {"minutes_played"}

MetricOf(x, c) == IF c = "minutes_played" THEN R(x.minutes_played) ELSE x.col[c]

\* the row with metric c at 1 and every other metric at 0
ProbeRow(x, c) ==
    [x EXCEPT !.col = [k \in StatCols |-> IF k = c THEN R(1) ELSE R(0)],
              !.minutes_played = IF c = "minutes_played" THEN 1 ELSE 0]

\* the weight a linear base value gives metric c
Coef(name, x, c) == BaseValue(name, ProbeRow(x, c))

MetricsUsed(name, x) == {c \in InputMetrics : Coef(name, x, c) # R(0)}

RECURSIVE CoefSum(_, _, _)
CoefSum(name, x, S) ==
    IF S = {} THEN R(0)
    ELSE LET c == CHOOSE k \in S : TRUE
         IN  RAdd(Coef(name, x, c), CoefSum(name, x, S \ {c}))

RECURSIVE LinearValue(_, _, _)
LinearValue(name, x, S) ==
    IF S = {} THEN R(0)
    ELSE LET c == CHOOSE k \in S : TRUE
         IN  RAdd(RMul(Coef(name, x, c), MetricOf(x, c)),
                  LinearValue(name, x, S \ {c}))

\* the base value of name is a linear combination of 2 to 4 input metrics
\* with weights summing to 1
LinearUnitWeights(name, x) ==
    LET used == MetricsUsed(name, x)
    IN  /\ Cardinality(used) \in 2..4
        /\ CoefSum(name, x, used) = R(1)
        /\ BaseValue(name, x) = LinearValue(name, x, used)

RECURSIVE TermWeightSum(_)
TermWeightSum(terms) ==
    IF terms = <<>> THEN 0 ELSE Head(terms)[1] + TermWeightSum(Tail(terms))

\* the sub-attributes with a term that is no input metric (a ratio
\* a / (b + 0.1), minutes_played / 1000, assists + goals,
\* 100 - 10 * goals_conceded) or with a single term
C11_Derived ==
    {"shooting", "dribbling", "finishing", "long_shots", "tackling",
     "stamina", "leadership", "decisions", "goalkeeping", "reflexes"}

\* C11 as stated: the base value of each of the 25 sub-attributes is a linear
\* combination of 2 to 4 input metrics whose weights sum to exactly 1.0
C11_AllLinearUnitWeights ==
    pc = "formulas" => \A name \in AttrSet : LinearUnitWeights(name, RateRow)

\* C11 amended: the base value of each of the 25 sub-attributes is a weighted
\* sum of 1 to 4 terms whose weights sum to 1.0 (one term for reflexes only);
\* it is a linear combination of 2 to 4 input metrics with weights summing
\* to 1.0 for exactly the 15 sub-attributes whose terms are all input metrics
C11_TermWeightsSumToOne ==
    pc = "formulas" =>
        \A name \in AttrSet :
            LET terms == Formula(name, RateRow).terms
            IN  /\ Len(terms) \in 1..4
                /\ Len(terms) = 1 <=> name = "reflexes"
                /\ TermWeightSum(terms) = 100
                /\ name \notin C11_Derived <=> LinearUnitWeights(name, RateRow)

\* the formulas have been applied to a player with passes, key passes,
\* goals, shots and tackles
C11_Witness ==
    /\ pc = "formulas"
    /\ rate_out["passes_per90"] = R(45)
    /\ rate_out["key_passes_per90"] = R(2)
    /\ rate_out["shots_per90"] = R(2)
    /\ rate_out["tackles_per90"] = R(2)
    /\ IsFinite(pre_scale["passing"].metric)
    /\ IsFinite(pre_scale["decisions"].metric)


\* C12: the overall CA of every rated player is the blend
\* 0.1*CA_GK + 0.3*CA_DEF + 0.3*CA_MID + 0.3*CA_FWD multiplied by the
\* versatility factor and by the consistency factor (1.05 for age >= 26,
\* else 1.0), rounded to 2 decimals
C12_CAWithFactors ==
    pc \in {"potential", "save", "done"} =>
        \A i \in 1..Len(ratings) :
            LET r == ratings[i]
            IN  r.CA = OverallCA_enhanced(r.CA_GK, r.CA_DEF, r.CA_MID, r.CA_FWD,
                           calculate_versatility_factor(r.CA_GK, r.CA_DEF,
                                                        r.CA_MID, r.CA_FWD),
                           calculate_consistency_factor(df_stats[i]))

\* C13: for a player whose perturbation is zero, PA equals
\* min(20, max(CA, CA + base + league_bonus + versatility_bonus)) with base
\* 6, 4, 2, 0 by age band, league_bonus = (league coefficient - 0.8) * 2 and
\* versatility_bonus = (versatility factor - 1.0) * 3
C13_PAWithBonuses ==
    pc \in {"save", "done"} =>
        \A i \in 1..Len(pa) :
            noise_draws[i] = R(0) =>
                LET r == ratings[i]
                IN  pa[i] = compute_PA_enhanced(r.CA, df_stats[i].age,
                                get_league_coefficient(df_stats[i].competition_id),
                                calculate_versatility_factor(r.CA_GK, r.CA_DEF,
                                                             r.CA_MID, r.CA_FWD),
                                R(0))

\* the largest and the smallest of the position CAs handed over
MaxPositionCA ==
    Max2(Max2(position_cas[1], position_cas[2]), Max2(position_cas[3], position_cas[4]))

MinPositionCA ==
    Min2(Min2(position_cas[1], position_cas[2]), Min2(position_cas[3], position_cas[4]))

\* C14: for four position CAs >= 0 the versatility factor is
\* min(1.2, 1 + 0.1*(max - min)/max) when max > 0 and 1.0 when max = 0; it
\* lies in [1.0, 1.2] and is 1.0 when the four position CAs are equal
C14_VersatilityFactor ==
    versatility # NaN =>
        /\ RLess(R(0), MaxPositionCA) =>
              versatility =
                  Min2(Frac(6, 5),
                       RAdd(R(1), RDiv(RSub(MaxPositionCA, MinPositionCA),
                                       RMul(R(10), MaxPositionCA))))
        /\ MaxPositionCA = R(0) => versatility = R(1)
        /\ RLeq(R(1), versatility) /\ RLeq(versatility, Frac(6, 5))
        /\ MaxPositionCA = MinPositionCA => versatility = R(1)

\* the factor has been computed for a row with a spread: position CAs 0.8
\* and 24.2 give 1 + 0.1 * 23.4 / 24.2
C14_Witness ==
    /\ versatility # NaN
    /\ position_cas = <<Frac(121, 5), Frac(4, 5), Frac(4, 5), Frac(121, 5)>>
    /\ versatility = Frac(1327, 1210)

\* the dict literal league_coefficients, coefficients in hundredths
LeagueTable ==
    {<<2, 100>>, <<49, 95>>, <<11, 90>>, <<12, 85>>, <<9, 80>>, <<37, 110>>,
     <<38, 90>>, <<55, 80>>, <<43, 105>>, <<50, 100>>, <<72, 85>>, <<44, 80>>,
     <<45, 75>>}

\* C20: get_league_coefficient returns a value in [0.75, 1.1] for every
\* competition id, the table entry for each of the 13 listed competitions
\* and 0.8 for every id that is not in the table
C20_LeagueCoefficient ==
    league_coefficient # NaN =>
        /\ RLeq(Frac(75, 100), league_coefficient)
        /\ RLeq(league_coefficient, Frac(110, 100))
        /\ \A e \in LeagueTable :
              league_comp_id = e[1] => league_coefficient = Frac(e[2], 100)
        /\ (\A e \in LeagueTable : league_comp_id # e[1]) =>
              league_coefficient = Frac(80, 100)

\* the coefficient of a listed competition (45 -> 0.75) has been returned
C20_Witness ==
    /\ Cardinality(LeagueTable) = 13
    /\ league_comp_id = 45 /\ league_coefficient = Frac(3, 4)

\* 0.1*CA_GK + 0.3*CA_DEF + 0.3*CA_MID + 0.3*CA_FWD of a rated row
Blend(r) ==
    RAdd(RAdd(RMul(Frac(1, 10), r.CA_GK), RMul(Frac(3, 10), r.CA_DEF)),
         RAdd(RMul(Frac(3, 10), r.CA_MID), RMul(Frac(3, 10), r.CA_FWD)))

\* C15: the overall CA is not clamped: in the rating stage it is the blend
\* of the position CAs rounded to 2 decimals, in the single-script pipeline
\* the blend times the row's versatility and consistency factors rounded to
\* 2 decimals, whatever its size, so it exceeds 20 when the blend does
C15_CANotClamped ==
    /\ pc \in {"potential", "save", "done"} =>
          \A i \in 1..Len(ratings) : ratings[i].CA = Round2(Blend(ratings[i]))
    /\ pc \in {"enh_potential", "enh_failed"} =>
          \A i \in 1..Len(ratings) :
              ratings[i].CA =
                  Round2(RMul(RMul(Blend(ratings[i]), ratings[i].versatility_factor),
                              ratings[i].consistency_factor))

\* the rating stage has saved a player (sub-attributes in [1, 20], age in
\* 18..34, competition 37 of the coefficient table) whose CA is above 20
C15_Witness ==
    /\ pc = "done"
    /\ \E i \in 1..Len(ratings) :
          /\ RLess(R(20), ratings[i].CA)
          /\ player_attributes[i].CA = ratings[i].CA
          /\ \A name \in AttrSet : InRange1to20(attrs[name][i])
          /\ df_stats[i].age \in 18..34
          /\ df_stats[i].competition_id = 37

\* the single-script pipeline has computed a CA above 20 the same way
C15_EnhancedAbove20 ==
    /\ pc = "enh_potential"
    /\ \E i \in 1..Len(ratings) :
          /\ RLess(R(20), ratings[i].CA)
          /\ \A name \in AttrSet : InRange1to20(attrs[name][i])

ZeroFilledRow ==
    [RateRow EXCEPT !.col = [c \in DOMAIN @ |-> IF IsNaN(@[c]) THEN R(0) ELSE @[c]]]

\* C17: a missing raw metric counts as 0 and does not propagate: for every
\* sub-attribute the value that is ranked equals the weighted sum computed
\* with the missing metrics replaced by 0, the defined metrics of the same
\* player still contributing
C17_MissingMetricIsZero ==
    pc = "formulas" =>
        \A name \in AttrSet : pre_scale[name].s = PreScale(name, ZeroFilledRow)

\* the sub-attributes with a ratio term (the last term of their sum), with
\* the numerator and the denominator rate of the ratio
RatioTerms ==
    {<<"shooting", "goals_per90", "shots_per90">>,
     <<"dribbling", "dribbles_successful_per90", "dribbles_per90">>,
     <<"finishing", "goals_per90", "xG_per90">>,
     <<"long_shots", "shots_on_target_per90", "shots_per90">>,
     <<"tackling", "tackles_won_per90", "tackles_per90">>}

\* C18: no ratio inside a weighted sum divides by zero: for the stored
\* per-90 rates, all >= 0 and the denominator rate possibly 0, every ratio
\* term has denominator rate + 0.1 > 0 and a finite value, and so has the
\* weighted sum it is part of
C18_RatiosFinite ==
    pc = "formulas" =>
        \A t \in RatioTerms :
            LET terms == Formula(t[1], RateRow).terms
                ratio == terms[Len(terms)][2]
                num   == RateRow.col[t[2]]
                den   == RateRow.col[t[3]]
            IN  /\ RLeq(R(0), num) /\ RLeq(R(0), den)
                /\ RLess(R(0), RAdd(den, Frac(1, 10)))
                /\ IsFinite(ratio)
                /\ RLeq(R(0), ratio)
                /\ IsFinite(pre_scale[t[1]].metric)

\* the formulas have been applied to a player with no shot, dribble or
\* tackle: every denominator rate is 0 and every ratio is 0 / 0.1 = 0
C18_Witness ==
    /\ pc = "formulas"
    /\ \A t \in RatioTerms :
          /\ RateRow.col[t[3]] = R(0)
          /\ LET terms == Formula(t[1], RateRow).terms
             IN  terms[Len(terms)][2] = R(0)

\* the per-match rows of data/processed_players.csv
CsvRows == {players_csv.content[k] : k \in 1..Len(players_csv.content)}

\* the distinct matches that contributed a row for the player
MatchesOf(player) == {r.match_id : r \in {q \in CsvRows : q.player = player}}

RECURSIVE MinutesOver(_, _)
\* the player's minutes summed over a set of matches, one row per match
MinutesOver(player, matches) ==
    IF matches = {} THEN 0
    ELSE LET m == CHOOSE x \in matches : TRUE
             r == CHOOSE q \in CsvRows : q.player = player /\ q.match_id = m
         IN  r.minutes_played + MinutesOver(player, matches \ {m})

\* no match contributes two rows for a player and every contributing match
\* is in the checkpoint; after the aggregation each player's minutes_played
\* is the sum of the player's minutes over the distinct contributing
\* matches, and it is not negative
C19_NoMatchCountedTwice ==
    /\ \A j, k \in 1..Len(players_csv.content) :
          (/\ players_csv.content[j].player = players_csv.content[k].player
           /\ players_csv.content[j].match_id = players_csv.content[k].match_id)
              => j = k
    /\ \A r \in CsvRows : ToString(r.match_id) \in checkpoint_file.content
    /\ pc = "agg_done" =>
          /\ \A k \in 1..Len(agg) :
                /\ agg[k].minutes_played =
                      MinutesOver(agg[k].player, MatchesOf(agg[k].player))
                /\ agg[k].minutes_played >= 0
          /\ \A r \in CsvRows : \E k \in 1..Len(agg) : agg[k].player = r.player

\* the matches the checkpoint lists as processed
CheckpointMatches(file) == IF file.exists THEN file.content ELSE {}

\* C19: after any sequence of fresh, resumed and interrupted runs of the
\* event stage followed by aggregation, each player's minutes_played is the
\* sum of the player's minutes over the distinct matches processed: no
\* match is counted twice, the sum is not negative, and every match that
\* becomes processed in the checkpoint has the rows computed for it saved
C19_MinutesOverProcessedMatches ==
    /\ []C19_NoMatchCountedTwice
    /\ [][\A m \in CheckpointMatches(checkpoint_file') \ CheckpointMatches(checkpoint_file) :
             \A k \in 1..Len(all_players) :
                 ToString(all_players[k].match_id) = m =>
                     \E j \in 1..Len(players_csv'.content) :
                         players_csv'.content[j] = all_players[k]]_vars

\* the same, the steps that interrupt a run left aside
C19_SavedWhenNotInterrupted ==
    [][pc' # "ev_interrupted" =>
          \A m \in CheckpointMatches(checkpoint_file') \ CheckpointMatches(checkpoint_file) :
             \A k \in 1..Len(all_players) :
                 ToString(all_players[k].match_id) = m =>
                     \E j \in 1..Len(players_csv'.content) :
                         players_csv'.content[j] = all_players[k]]_vars

\* the aggregation has run after two runs of the event stage: A played 90
\* minutes in each of two matches and has 180 minutes
C19_Witness ==
    /\ pc = "agg_done"
    /\ event_runs >= 2
    /\ MatchesOf("A") = {101, 102}
    /\ \E k \in 1..Len(agg) : agg[k].player = "A" /\ agg[k].minutes_played = 180

\* a resumed run holds the rows of an earlier run and has a new match to do
C19_ResumedRun ==
    /\ pc = "ev_loop" /\ loop_i = 0
    /\ all_players # <<>>
    /\ to_process = <<102>>

\* C21: a resumed run of the event stage never fetches a match whose id is
\* in the checkpoint file, the matches a run processes are exactly the
\* entries of the match list absent from the checkpoint loaded at its
\* start, and so across any sequence of runs sb.events is called at most
\* once for each match id
C21_ProcessedAtMostOnce ==
    /\ pc = "ev_loop" =>
          /\ \A k \in 1..Len(to_process) :
                ToString(to_process[k]) \notin CheckpointMatches(checkpoint_file)
                    \/ k <= loop_i
          /\ \A k \in 1..loop_i : ToString(to_process[k]) \in processed_matches
    /\ \A m \in DOMAIN fetched : fetched[m] <= 1

\* C22: when a run of the event stage finishes, every match id of the match
\* list it read is recorded in the checkpoint file, the matches without
\* events, without a row in matches and with an exception included
C22_AllRecordedAtFinish ==
    pc = "ev_done" =>
        /\ \A k \in 1..Len(to_process) :
              ToString(to_process[k]) \in CheckpointMatches(checkpoint_file)
        /\ processed_matches \subseteq CheckpointMatches(checkpoint_file)

\* C23: at every point of a run, an interruption between the two writes of
\* a save included, each row held for a match that the checkpoint file
\* records is in the CSV file, so that a resumed run loses no row
C23_CheckpointedRowsInCsv ==
    [][\A k \in 1..Len(all_players) :
          ToString(all_players[k].match_id) \in CheckpointMatches(checkpoint_file')
              => \E j \in 1..Len(players_csv'.content) :
                    players_csv'.content[j] = all_players[k]]_vars

\* the same for the steps that are not an interruption
C23_HoldsWhenNotInterrupted ==
    [][pc' # "ev_interrupted" =>
          \A k \in 1..Len(all_players) :
             ToString(all_players[k].match_id) \in CheckpointMatches(checkpoint_file')
                 => \E j \in 1..Len(players_csv'.content) :
                       players_csv'.content[j] = all_players[k]]_vars

\* the table has one row for each distinct player_name
OneRowPerName(table) ==
    \A j, k \in 1..Len(table) : table[j].player_name = table[k].player_name => j = k

\* the table has one aggregated row (competition_id 0, season_id 0) for
\* each player_id in it
OneAggregatedRowPerPlayer(table) ==
    \A j, k \in 1..Len(table) :
        (/\ table[j].player_id = table[k].player_id
         /\ table[j].competition_id = 0 /\ table[k].competition_id = 0
         /\ table[j].season_id = 0 /\ table[k].season_id = 0) => j = k

\* C24: running the aggregation again on the same CSV file leaves the
\* database as the first run left it: players has one row for each distinct
\* name, player_stats has one aggregated row for each player, and the rows
\* are the same
C24_RerunIdempotent ==
    [][(pc = "agg_done" /\ pc' = "agg_done") =>
          /\ OneRowPerName(players')
          /\ OneAggregatedRowPerPlayer(player_stats')
          /\ players' = players
          /\ player_stats' = player_stats]_vars

\* what the staged aggregation keeps on a second run: the rows of
\* player_stats
C24_StatsKeptByStage4 ==
    [][(pc = "agg_done" /\ pc' = "agg_done") =>
          /\ OneAggregatedRowPerPlayer(player_stats')
          /\ player_stats' = player_stats]_vars

\* the row of player_stats the aggregation has written for row k of agg
WrittenRow(k) == player_stats[Len(player_stats) - Len(agg) + k]

\* the join of the rating stage finds one players row for the statistics
\* row written for row k of agg, and it carries that row's name
JoinedToOwnName(k) ==
    LET joined == JoinStats(<<WrittenRow(k)>>, players)
    IN  Len(joined) = 1 /\ joined[1].player_name = agg[k].player

\* C25: every player_stats row the aggregation writes carries the player_id
\* of a players row with the aggregated name, so the join of the rating
\* stage attaches each row to that name once, on a fresh database and on
\* one that holds players already
C25_StatsCarryOwnPlayerId ==
    pc \in {"agg_done", "mono_done"} =>
        \A k \in 1..Len(agg) : JoinedToOwnName(k)

\* the same for the staged aggregation alone
C25_Stage4CarriesOwnPlayerId ==
    pc = "agg_done" => \A k \in 1..Len(agg) : JoinedToOwnName(k)

\* the staged aggregation has written rows into a database that held
\* players of an earlier run
C25_Stage4OnHeldPlayers ==
    /\ pc = "agg_done"
    /\ Len(agg) = 2
    /\ Len(players) > Len(agg)
    /\ players[1].player_name = "B"

\* the rows the event stage holds in memory and in the CSV file
MatchRows ==
    {all_players[k] : k \in 1..Len(all_players)} \cup CsvRows

\* C28: every per-match player row has assists equal to goals, and after
\* the aggregation assists_per90 equals goals_per90 for every player, in
\* agg and in the rows of player_stats
C28_AssistsEqualGoals ==
    /\ \A r \in MatchRows : r.cnt["assists"] = r.cnt["goals"]
    /\ \A k \in 1..Len(agg) :
          agg[k].col["assists_per90"] = agg[k].col["goals_per90"]
    /\ \A k \in 1..Len(player_stats) :
          player_stats[k].col["assists_per90"] = player_stats[k].col["goals_per90"]

\* the aggregation has stored B, who scored once in 88 minutes without
\* playing a pass; both rates are 90/88
C28_Witness ==
    /\ pc = "agg_done"
    /\ \E r \in MatchRows :
          r.player = "B" /\ r.cnt["goals"] = R(1) /\ r.cnt["key_passes"] = R(0)
    /\ \E k \in 1..Len(player_stats) :
          /\ player_stats[k].minutes_played = 88
          /\ player_stats[k].col["goals_per90"] = Frac(90, 88)
          /\ player_stats[k].col["assists_per90"] = Frac(90, 88)

\* the row as it would be rated in a league of coefficient 1.0 (La Liga, 2)
Unadjusted(x) == [x EXCEPT !.competition_id = 2]

\* base_ca of compute_position_CA: the weighted sum before the factors
PositionBase(at, position_type) ==
    LET w == PositionWeights(position_type)
    IN  WeightedSum([k \in 1..Len(w) |-> <<w[k][1], at[w[k][2]]>>])

PositionTypes == {"GK", "DEF", "MID", "FWD"}

PositionCAOf(r, position_type) ==
    CASE position_type = "GK" -> r.CA_GK
      [] position_type = "DEF" -> r.CA_DEF
      [] position_type = "MID" -> r.CA_MID
      [] position_type = "FWD" -> r.CA_FWD

\* C26: the aggregated statistics are stored under competition_id 0, which
\* the league table does not hold, so the coefficient of every player is
\* the default 0.8: in every sub-attribute with a league factor, where it
\* leaves the order of any two players as it is without the factor, and in
\* every position CA, which is base_ca * 0.8 * age factor and orders no two
\* players the other way round than without the factor
C26_LeagueFactorIsDefault ==
    /\ \A k \in 1..Len(player_stats) : player_stats[k].competition_id = 0
    /\ \A i \in 1..Len(df_stats) :
          /\ LeagueOf(df_stats[i]) = Frac(8, 10)
          /\ \A j \in 1..Len(df_stats), name \in AttrSet :
                RLess(PreScale(name, df_stats[i]), PreScale(name, df_stats[j]))
                <=> RLess(PreScale(name, Unadjusted(df_stats[i])),
                          PreScale(name, Unadjusted(df_stats[j])))
    /\ pc = "potential" =>
          \A i \in 1..Len(df_stats), pt \in PositionTypes :
              /\ PositionCAOf(ratings[i], pt) =
                    Round2(RMul(RMul(PositionBase(RowAttrs(attrs, i), pt), Frac(8, 10)),
                                PositionAgeFactor(pt, df_stats[i].age)))
              /\ \A j \in 1..Len(df_stats) :
                    RLess(PositionCAOf(ratings[i], pt), PositionCAOf(ratings[j], pt))
                    => ~RLess(compute_position_CA(Unadjusted(df_stats[j]),
                                                  RowAttrs(attrs, j), pt),
                              compute_position_CA(Unadjusted(df_stats[i]),
                                                  RowAttrs(attrs, i), pt))

\* two players are rated; the league factor is in B's passing value, which
\* is below A's, and in the CA_MID of both, which differ
C26_Witness ==
    /\ pc = "potential"
    /\ Len(df_stats) = 2
    /\ \E i, j \in 1..2 :
          /\ RLess(PreScale("passing", df_stats[i]), PreScale("passing", df_stats[j]))
          /\ PreScale("passing", df_stats[j]) #
                PreScale("passing", Unadjusted(df_stats[j]))
          /\ RLess(ratings[i].CA_MID, ratings[j].CA_MID)

GoalkeepingCols == {"saves_per90", "clean_sheets", "goals_conceded_per90"}

\* C27: the aggregation writes no value to saves_per90, clean_sheets and
\* goals_conceded_per90, so all players have one and the same goalkeeping,
\* one and the same reflexes and one and the same handling, and the CA_GK
\* of two players of equal age differ only when their kicking differs
C27_GoalkeepingTied ==
    /\ \A k \in 1..Len(player_stats), c \in GoalkeepingCols :
          IsNaN(player_stats[k].col[c])
    /\ pc \in {"position", "potential"} =>
          \A i, j \in 1..Len(df_stats) :
              \A name \in {"goalkeeping", "reflexes", "handling"} :
                  attrs[name][i] = attrs[name][j]
    /\ pc = "potential" =>
          \A i, j \in 1..Len(df_stats) :
              (/\ df_stats[i].age = df_stats[j].age
               /\ ratings[i].CA_GK # ratings[j].CA_GK)
                  => attrs["kicking"][i] # attrs["kicking"][j]

\* two players of the same age are rated; their pass accuracy differs, their
\* handling does not, and their CA_GK differ with their kicking
C27_Witness ==
    /\ pc = "potential"
    /\ Len(df_stats) = 2
    /\ df_stats[1].age = df_stats[2].age
    /\ df_stats[1].col["pass_accuracy"] # df_stats[2].col["pass_accuracy"]
    /\ attrs["handling"][1] = attrs["handling"][2]
    /\ attrs["kicking"][1] # attrs["kicking"][2]
    /\ ratings[1].CA_GK # ratings[2].CA_GK

\* ------------------------------------------------------------------------
\* fetch_football_data_matches.py: matches of football-data.org, with a
\* progress file
\* ------------------------------------------------------------------------
MaxFetchMatches == 3
MaxFetchRuns == 2

\* matches_data.get('matches', []): the ids of the matches of the season
season_matches == [k \in 1..MaxFetchMatches |-> 200 + k]

\* what make_request does for a match's details: it returns response.json(),
\* returns {} on a status that is neither 200 nor 429, or requests.get raises
DetailResponses == {"details", "empty", "raised"}

\* load_progress(): the completed matches of the file, set() without a file
load_progress(file) == IF file.exists THEN file.content ELSE {}

\* save_progress(completed_matches) opens the file for reading first and
\* raises FileNotFoundError without it; the handler of the match logs the
\* error and the file is not written
save_progress(file, completed) ==
    IF file.exists THEN [exists |-> TRUE, content |-> completed] ELSE file

\* the progress file is there with nothing completed (it holds the skipped
\* seasons), or it is not there
InitFetcher ==
    /\ pc = "fd_start"
    /\ progress_file \in {[exists |-> FALSE, content |-> {}],
                          [exists |-> TRUE, content |-> {}]}
    /\ completed_matches = {} /\ stored_details = {}
    /\ detail_requests = [m \in {season_matches[k] : k \in 1..MaxFetchMatches} |-> 0]
    /\ fetch_i = 0 /\ fetch_runs = 0
    /\ ScalerIdle /\ FactorIdle /\ RateIdle /\ DbIdle /\ RatingIdle /\ EventsIdle
    /\ AggIdle

\* a run of the script up to the loop over the matches
StartFetch ==
    /\ pc \in {"fd_start", "fd_done"}
    /\ fetch_runs < MaxFetchRuns
    /\ completed_matches' = load_progress(progress_file)
    /\ fetch_i' = 0
    /\ pc' = "fd_loop"
    /\ UNCHANGED <<progress_file, stored_details, detail_requests, fetch_runs,
                   scalerVars, factorVars, rateVars, dbVars, ratingVars, eventVars,
                   aggVars>>

\* one iteration of "for m in matches_pbar": a completed match is skipped;
\* for any other the details are requested and, when they are not empty,
\* scorers and statistics are stored, the match is added to
\* completed_matches and save_progress is called; conn.commit() follows
FetchMatch ==
    /\ pc = "fd_loop"
    /\ fetch_i < Len(season_matches)
    /\ LET match_id == season_matches[fetch_i + 1]
       IN  IF match_id \in completed_matches
           THEN UNCHANGED <<progress_file, completed_matches, stored_details,
                            detail_requests>>
           ELSE \E response \in DetailResponses :
                   /\ detail_requests' = [detail_requests EXCEPT ![match_id] = @ + 1]
                   /\ IF response = "details"
                      THEN /\ stored_details' = stored_details \cup {match_id}
                           /\ completed_matches' = completed_matches \cup {match_id}
                           /\ progress_file' =
                                 save_progress(progress_file,
                                               completed_matches \cup {match_id})
                      ELSE UNCHANGED <<progress_file, completed_matches,
                                       stored_details>>
    /\ fetch_i' = fetch_i + 1
    /\ UNCHANGED <<pc, fetch_runs, scalerVars, factorVars, rateVars, dbVars,
                   ratingVars, eventVars, aggVars>>

\* the end of the script: conn.close()
FinishFetch ==
    /\ pc = "fd_loop"
    /\ fetch_i = Len(season_matches)
    /\ fetch_runs' = fetch_runs + 1
    /\ pc' = "fd_done"
    /\ UNCHANGED <<progress_file, completed_matches, stored_details,
                   detail_requests, fetch_i, scalerVars, factorVars, rateVars,
                   dbVars, ratingVars, eventVars, aggVars>>

NextFetcher == StartFetch \/ FetchMatch \/ FinishFetch

SpecFetcher == InitFetcher /\ [][NextFetcher]_vars

\* C29: once the details of a match have been fetched non-empty and its
\* rows stored, the match id is in the progress file, and no later request
\* is made for its details: every later run skips it, whether the progress
\* file was there before the first run or not
C29_StoredMatchNeverRefetched ==
    /\ [](\A m \in stored_details :
             progress_file.exists /\ m \in progress_file.content)
    /\ [][\A m \in stored_details : detail_requests'[m] = detail_requests[m]]_vars

\* the same for the runs that found the progress file
C29_WhenProgressFileExists ==
    /\ [](progress_file.exists =>
             \A m \in stored_details : m \in progress_file.content)
    /\ [][progress_file.exists =>
             \A m \in stored_details : detail_requests'[m] = detail_requests[m]]_vars

\* a second run has skipped match 201, stored by the first
C29_SkippedInSecondRun ==
    /\ pc = "fd_loop" /\ fetch_runs = 1 /\ fetch_i >= 1
    /\ 201 \in stored_details
    /\ detail_requests[201] = 1

====
